---- MODULE Spec2Model ----
(***************************************************************************)
(* A model of MindFlayer's schema-inference and test-planning core:        *)
(* the pydantic data models (models/context.py, models/test_plan.py), the  *)
(* schema inference engine (context/schema_inference.py) and the test      *)
(* planner (planner/test_planner.py).                                      *)
(*                                                                         *)
(* Every operation is a pure call on its arguments, so each specification  *)
(* draws a call (operation name and arguments) in its initial state and    *)
(* one action per operation applies the operation to it.                   *)
(*                                                                         *)
(* Python values:  str -> TLA+ string, list -> sequence, set -> set,       *)
(* Optional[T] -> None (the empty sequence) or Some(x) (a one-element      *)
(* sequence), an object -> a record of its attributes, a raised exception  *)
(* -> the "raised" field of the call's result.                             *)
(***************************************************************************)
EXTENDS Integers, Sequences, FiniteSets, TLC

VARIABLES
    op,      \* the operation being called
    args,    \* its arguments
    result,  \* what it returned or raised
    done     \* FALSE before the call, TRUE after it

vars == <<op, args, result, done>>

(***************************************************************************)
(* Bounds of the model                                                     *)
(***************************************************************************)
MaxEndpoints == 2      \* endpoints in a context
MaxScenarios == 3      \* scenarios handed to the TestPlan constructor
MaxDeps == 2           \* entries of an endpoint's depends_on
MaxConstraints == 2    \* state constraints of an endpoint
MaxBody == 3           \* fields of an endpoint's request body
MaxExisting == 1       \* names in existing_tests

(***************************************************************************)
(* Python helpers                                                          *)
(***************************************************************************)
None == <<>>
Some(x) == <<x>>
Val(o) == o[1]

Pending == [raised |-> "pending"]

\* The set of sequences over S of length at most n.
SeqsUpTo(S, n) == UNION {[1..k -> S] : k \in 0..n}

\* The elements of a list, as a set:  set(xs)
ToSet(xs) == {xs[i] : i \in DOMAIN xs}

\* xs[:n]
Take(xs, n) == SubSeq(xs, 1, IF Len(xs) < n THEN Len(xs) ELSE n)

\* min(S)
Min(S) == CHOOSE n \in S : \A o \in S : n <= o

\* sub in s, for strings
Contains(s, sub) ==
    \E v \in {s}, w \in {sub} :
        \E i \in 1..(Len(v) - Len(w) + 1) : SubSeq(v, i, i + Len(w) - 1) = w

UpperOf ==
    [a |-> "A", b |-> "B", c |-> "C", d |-> "D", e |-> "E", f |-> "F",
     g |-> "G", h |-> "H", i |-> "I", j |-> "J", k |-> "K", l |-> "L",
     m |-> "M", n |-> "N", o |-> "O", p |-> "P", q |-> "Q", r |-> "R",
     s |-> "S", t |-> "T", u |-> "U", v |-> "V", w |-> "W", x |-> "X",
     y |-> "Y", z |-> "Z"]

LowerOf ==
    [A |-> "a", B |-> "b", C |-> "c", D |-> "d", E |-> "e", F |-> "f",
     G |-> "g", H |-> "h", I |-> "i", J |-> "j", K |-> "k", L |-> "l",
     M |-> "m", N |-> "n", O |-> "o", P |-> "p", Q |-> "q", R |-> "r",
     S |-> "s", T |-> "t", U |-> "u", V |-> "v", W |-> "w", X |-> "x",
     Y |-> "y", Z |-> "z"]

UpperChar(c) == IF c \in DOMAIN UpperOf THEN UpperOf[c] ELSE c

RECURSIVE Upper(_)
\* str.upper()
Upper(s) ==
    IF Len(s) <= 1 THEN UpperChar(s)
    ELSE Upper(SubSeq(s, 1, Len(s) \div 2)) \o Upper(SubSeq(s, Len(s) \div 2 + 1, Len(s)))

LowerChar(c) == IF c \in DOMAIN LowerOf THEN LowerOf[c] ELSE c

RECURSIVE Lower(_)
\* str.lower()
Lower(s) ==
    IF Len(s) <= 1 THEN LowerChar(s)
    ELSE Lower(SubSeq(s, 1, Len(s) \div 2)) \o Lower(SubSeq(s, Len(s) \div 2 + 1, Len(s)))

IsLetter(c) == c \in DOMAIN UpperOf \/ c \in DOMAIN LowerOf

RECURSIVE TitleFrom(_, _)
TitleFrom(s, prev_cased) ==
    IF Len(s) = 0 THEN ""
    ELSE LET c == SubSeq(s, 1, 1)
         IN  (IF prev_cased THEN LowerChar(c) ELSE UpperChar(c))
             \o TitleFrom(SubSeq(s, 2, Len(s)), IsLetter(c))

\* str.title()
Title(s) == TitleFrom(s, FALSE)

\* s.startswith(t), s.endswith(t)
StartsWith(s, t) == Len(t) <= Len(s) /\ SubSeq(s, 1, Len(t)) = t
EndsWith(s, t) == Len(t) <= Len(s) /\ SubSeq(s, Len(s) - Len(t) + 1, Len(s)) = t

RECURSIVE Strip(_, _)
\* s.strip(c) for a one-character c
Strip(s, c) ==
    IF Len(s) > 0 /\ SubSeq(s, 1, 1) = c THEN Strip(SubSeq(s, 2, Len(s)), c)
    ELSE IF Len(s) > 0 /\ SubSeq(s, Len(s), Len(s)) = c
         THEN Strip(SubSeq(s, 1, Len(s) - 1), c)
         ELSE s

RECURSIVE Split(_, _)
\* s.split(c) for a one-character c
Split(s, c) ==
    IF \E i \in 1..Len(s) : SubSeq(s, i, i) = c
    THEN LET i == CHOOSE j \in 1..Len(s) :
                    /\ SubSeq(s, j, j) = c
                    /\ \A k \in 1..(j - 1) : SubSeq(s, k, k) # c
         IN  <<SubSeq(s, 1, i - 1)>> \o Split(SubSeq(s, i + 1, Len(s)), c)
    ELSE <<s>>

RECURSIVE Join(_, _)
\* c.join(parts)
Join(parts, c) ==
    IF parts = <<>> THEN ""
    ELSE IF Len(parts) = 1 THEN parts[1]
         ELSE parts[1] \o c \o Join(Tail(parts), c)

(***************************************************************************)
(* models/context.py : Endpoint                                            *)
(***************************************************************************)
ValidMethods == {"GET", "POST", "PUT", "DELETE", "PATCH", "HEAD", "OPTIONS"}

\* The field default:  expected_success_code: int = 200
DefaultSuccessCode == 200

validate_method_raises(v) == Upper(v) \notin ValidMethods

validate_method(v) == Upper(v)

\* The model validator, run after the fields are set.
auto_success_code(self) ==
    IF self.expected_success_code = DefaultSuccessCode
    THEN IF self.method = "POST"
         THEN [self EXCEPT !.expected_success_code = 201]
         ELSE IF self.method = "DELETE"
              THEN [self EXCEPT !.expected_success_code = 204]
              ELSE self
    ELSE self

\* Endpoint(**a): a.expected_success_code is None when the keyword is not
\* passed (the field then takes its default) and Some(code) when it is.
Endpoint(a) ==
    IF validate_method_raises(a.method)
    THEN [raised |-> "ValidationError"]
    ELSE [raised |-> "none",
          value  |-> auto_success_code(
              [name                  |-> a.name,
               method                |-> validate_method(a.method),
               url_path              |-> a.url_path,
               requires_auth         |-> a.requires_auth,
               depends_on            |-> a.depends_on,
               request_body          |-> a.request_body,
               response_body         |-> a.response_body,
               state_constraints     |-> a.state_constraints,
               roles                 |-> a.roles,
               expected_success_code |->
                   IF a.expected_success_code = None
                   THEN DefaultSuccessCode
                   ELSE Val(a.expected_success_code)])]

\* Keyword arguments of Endpoint(...) with every optional one left out.
EndpointArgs(name, method, url_path) ==
    [name |-> name, method |-> method, url_path |-> url_path,
     requires_auth |-> FALSE, depends_on |-> <<>>, request_body |-> <<>>,
     response_body |-> <<>>, state_constraints |-> <<>>, roles |-> <<>>,
     expected_success_code |-> None]

(***************************************************************************)
(* models/context.py : SystemContext                                       *)
(***************************************************************************)
validate_no_duplicate_names_raises(v) ==
    Len(v) # Cardinality({v[i].name : i \in DOMAIN v})

validate_dependencies_exist_Skip(v, data) == FALSE

\* data is the record of the fields validated so far: it has "endpoints"
\* only when the endpoints validator passed.
validate_dependencies_exist_raises(v, data) ==
    /\ "endpoints" \in DOMAIN data
    /\ LET endpoint_names == {data.endpoints[i].name : i \in DOMAIN data.endpoints}
       IN  \E k \in DOMAIN v : \E j \in DOMAIN v[k] : v[k][j] \notin endpoint_names

\* SystemContext(endpoints=..., auth_rules=..., dependencies=...): fields are
\* validated in declaration order; any failed validator fails construction.
SystemContext(a) ==
    LET endpoints_bad == validate_no_duplicate_names_raises(a.endpoints)
        data == IF endpoints_bad THEN [auth_rules |-> a.auth_rules]
                ELSE [endpoints |-> a.endpoints, auth_rules |-> a.auth_rules]
        deps_bad == validate_dependencies_exist_raises(a.dependencies, data)
    IN  IF endpoints_bad \/ deps_bad
        THEN [raised |-> "ValidationError"]
        ELSE [raised |-> "none",
              value  |-> [endpoints    |-> a.endpoints,
                          auth_rules   |-> a.auth_rules,
                          dependencies |-> a.dependencies]]

(***************************************************************************)
(* models/test_plan.py : TestScenario, TestPlan                            *)
(***************************************************************************)
VALID_TEST_TYPES ==
    {"positive", "no_auth", "dependency_failure", "invalid_input",
     "state_conflict", "forbidden_role", "field_validation",
     "boundary_value", "numeric_boundary"}

validate_test_type_raises(v) == v \notin VALID_TEST_TYPES

\* TestScenario(...): payload_hint is None or Some([key |-> k, value |-> v]),
\* the one-entry dict {k: v}.
TestScenario(test_name, endpoint, test_type, expected_status, payload_hint) ==
    [test_name       |-> test_name,
     endpoint        |-> endpoint,
     test_type       |-> test_type,
     expected_status |-> expected_status,
     payload_hint    |-> payload_hint]

validate_unique_test_names_Accept(v) == FALSE

validate_unique_test_names_raises(v) ==
    LET names == [i \in DOMAIN v |-> v[i].test_name]
    IN  Len(names) # Cardinality(ToSet(names))

\* TestPlan(scenarios=..., rationale=...): the rationale is free text that no
\* validator reads, and is left out.
TestPlan(scenarios) ==
    IF validate_unique_test_names_raises(scenarios)
    THEN [raised |-> "ValidationError"]
    ELSE [raised |-> "none", value |-> [scenarios |-> scenarios]]

(***************************************************************************)
(* models/context.py : FieldSpec, StateConstraint                          *)
(***************************************************************************)
\* The declared fields of FieldSpec other than name, with their defaults.
FieldSpecDefaults ==
    [field_type  |-> "string",
     format      |-> None,
     required    |-> TRUE,
     example     |-> None,
     min_length  |-> None,
     max_length  |-> None,
     enum        |-> None,
     description |-> None]

\* FieldSpec(**kw) raises a validation error when the required name is
\* missing.
FieldSpec_raises(kw) == "name" \notin DOMAIN kw

\* FieldSpec(**kw): the object has exactly the attributes the class
\* declares; a keyword that names no declared field is ignored.
FieldSpec(kw) ==
    [a \in {"name"} \cup DOMAIN FieldSpecDefaults |->
        IF a \in DOMAIN kw THEN kw[a] ELSE FieldSpecDefaults[a]]

\* The field default:  error_code: int = 409
DefaultErrorCode == 409

StateConstraint(field, allowed_values, blocked_values, description, error_code) ==
    [field          |-> field,
     allowed_values |-> allowed_values,
     blocked_values |-> blocked_values,
     description    |-> description,
     error_code     |-> error_code]

\* obj.attr raises AttributeError unless the object has the attribute.
HasAttr(obj, attr) == attr \in DOMAIN obj

(***************************************************************************)
(* planner/test_planner.py : plan_tests                                    *)
(***************************************************************************)
\* The role tokens in the order Python's sorted() puts them.
SortedRoleTokens ==
    <<"admin", "editor", "manager", "moderator", "owner", "user", "viewer">>

sorted_Reversed(S) ==
    LET asc == SelectSeq(SortedRoleTokens, LAMBDA r : r \in S)
    IN  [i \in DOMAIN asc |-> asc[Len(asc) + 1 - i]]

\* sorted(S) for a set of role tokens
sorted(S) == SelectSeq(SortedRoleTokens, LAMBDA r : r \in S)

add_Always(scenarios, existing_tests_set, sc) == Append(scenarios, sc)

\* _add: append the scenario unless its name is an existing test's.
add(scenarios, existing_tests_set, sc) ==
    IF sc.test_name \notin existing_tests_set
    THEN Append(scenarios, sc)
    ELSE scenarios

RECURSIVE add_all(_, _, _)
\* _add called on each candidate in turn
add_all(scenarios, existing_tests_set, cands) ==
    IF cands = <<>> THEN scenarios
    ELSE add_all(add(scenarios, existing_tests_set, Head(cands)),
                 existing_tests_set, Tail(cands))

RECURSIVE Flatten(_)
Flatten(xss) == IF xss = <<>> THEN <<>> ELSE Head(xss) \o Flatten(Tail(xss))

RECURSIVE Repeat(_, _)
\* s * n
Repeat(s, n) == IF n <= 0 THEN "" ELSE s \o Repeat(s, n - 1)

Max(a, b) == IF a > b THEN a ELSE b

\* 1. Positive test (happy path)
positive_rule(endpoint) ==
    <<TestScenario(endpoint.name \o "_positive", endpoint.name, "positive",
                   endpoint.expected_success_code, None)>>

\* The no-auth test, were it planned without the test of requires_auth.
no_auth_rule_Always(endpoint) ==
    <<TestScenario(endpoint.name \o "_no_auth", endpoint.name, "no_auth", 401, None)>>

\* 2. No-auth test
no_auth_rule(endpoint) ==
    IF endpoint.requires_auth
    THEN <<TestScenario(endpoint.name \o "_no_auth", endpoint.name, "no_auth", 401, None)>>
    ELSE <<>>

\* 3. Dependency failure test, one per entry of depends_on
dependency_rule(endpoint) ==
    [i \in DOMAIN endpoint.depends_on |->
        TestScenario(endpoint.name \o "_dependency_fail_" \o endpoint.depends_on[i],
                     endpoint.name, "dependency_failure", 404, None)]

\* 4. Invalid ID test
invalid_id_rule(endpoint) ==
    IF Contains(endpoint.url_path, ":id")
    THEN <<TestScenario(endpoint.name \o "_invalid_id", endpoint.name,
                        "invalid_input", 404, None)>>
    ELSE <<>>

\* The state conflict tests of one constraint, were they to expect the
\* default error code instead of the constraint's.
constraint_scenarios_DefaultCode(endpoint, constraint) ==
    LET blocked == constraint.blocked_values
        conflict_state == IF blocked # <<>> THEN blocked[1] ELSE "completed"
    IN  (IF constraint.allowed_values # <<>>
         THEN <<TestScenario(endpoint.name \o "_state_conflict_" \o constraint.field,
                             endpoint.name, "state_conflict", DefaultErrorCode,
                             Some([key |-> constraint.field, value |-> conflict_state]))>>
         ELSE <<>>)
        \o [i \in DOMAIN blocked |->
                TestScenario(endpoint.name \o "_state_blocked_" \o blocked[i],
                             endpoint.name, "state_conflict", DefaultErrorCode,
                             Some([key |-> constraint.field, value |-> blocked[i]]))]

\* 5. State conflict tests of one constraint
constraint_scenarios(endpoint, constraint) ==
    LET blocked == constraint.blocked_values
        conflict_state == IF blocked # <<>> THEN blocked[1] ELSE "completed"
    IN  (IF constraint.allowed_values # <<>>
         THEN <<TestScenario(endpoint.name \o "_state_conflict_" \o constraint.field,
                             endpoint.name, "state_conflict", constraint.error_code,
                             Some([key |-> constraint.field, value |-> conflict_state]))>>
         ELSE <<>>)
        \o [i \in DOMAIN blocked |->
                TestScenario(endpoint.name \o "_state_blocked_" \o blocked[i],
                             endpoint.name, "state_conflict", constraint.error_code,
                             Some([key |-> constraint.field, value |-> blocked[i]]))]

state_conflict_rule(endpoint) ==
    Flatten([i \in DOMAIN endpoint.state_constraints |->
                constraint_scenarios(endpoint, endpoint.state_constraints[i])])

\* The forbidden role tests, were the endpoint's own roles not taken out of
\* the roles of the context.
forbidden_role_rule_OwnRoles(context, endpoint) ==
    IF Len(endpoint.roles) > 0 /\ endpoint.requires_auth
    THEN LET all_roles == UNION {ToSet(context.endpoints[i].roles) :
                                    i \in DOMAIN context.endpoints}
             chosen == Take(sorted(all_roles), 2)
         IN  [i \in DOMAIN chosen |->
                 TestScenario(endpoint.name \o "_forbidden_" \o chosen[i],
                              endpoint.name, "forbidden_role", 403, None)]
    ELSE <<>>

\* 6. Forbidden role tests
forbidden_role_rule(context, endpoint) ==
    IF Len(endpoint.roles) > 0 /\ endpoint.requires_auth
    THEN LET all_roles == UNION {ToSet(context.endpoints[i].roles) :
                                    i \in DOMAIN context.endpoints}
             forbidden_roles == all_roles \ ToSet(endpoint.roles)
             chosen == Take(sorted(forbidden_roles), 2)
         IN  [i \in DOMAIN chosen |->
                 TestScenario(endpoint.name \o "_forbidden_" \o chosen[i],
                              endpoint.name, "forbidden_role", 403, None)]
    ELSE <<>>

FormatsValidated == {Some("email"), Some("phone"), Some("uri"), Some("url"), Some("uuid")}

\* 7. Field validation tests: invalid format, then missing required field
field_validation_rule(endpoint) ==
    LET format_fields == SelectSeq(endpoint.request_body,
                                   LAMBDA f : f.format \in FormatsValidated)
        chosen == Take(format_fields, 2)
        required_fields == SelectSeq(endpoint.request_body, LAMBDA f : f.required)
    IN  [i \in DOMAIN chosen |->
            TestScenario(endpoint.name \o "_invalid_" \o chosen[i].name,
                         endpoint.name, "field_validation", 422,
                         Some([key |-> chosen[i].name,
                               value |-> "not-a-valid-" \o Val(chosen[i].format)]))]
        \o (IF required_fields # <<>>
            THEN <<TestScenario(endpoint.name \o "_missing_" \o required_fields[1].name,
                                endpoint.name, "field_validation", 422,
                                Some([key |-> "_omit_field",
                                      value |-> required_fields[1].name]))>>
            ELSE <<>>)

short_scenarios(endpoint, field) ==
    IF field.min_length # None /\ Val(field.min_length) > 0
    THEN <<TestScenario(endpoint.name \o "_short_" \o field.name,
                        endpoint.name, "boundary_value", 422,
                        Some([key |-> field.name,
                              value |-> Repeat("x", Max(1, Val(field.min_length) - 1))]))>>
    ELSE <<>>

\* 8. Boundary value tests (string length)
boundary_rule(endpoint) ==
    LET boundary_fields ==
            SelectSeq(endpoint.request_body,
                      LAMBDA f : f.min_length # None \/ f.max_length # None)
        chosen == Take(boundary_fields, 2)
    IN  Flatten([i \in DOMAIN chosen |-> short_scenarios(endpoint, chosen[i])])

\* 9. The filter of numeric_fields reads f.minimum, and f.maximum when the
\* minimum is None, of every field of the request body.
numeric_filter_raises(endpoint) ==
    \E i \in DOMAIN endpoint.request_body :
        LET f == endpoint.request_body[i]
        IN  \/ ~HasAttr(f, "minimum")
            \/ (f.minimum = None /\ ~HasAttr(f, "maximum"))

numeric_scenarios(endpoint, field) ==
    IF field.minimum # None
    THEN <<TestScenario(endpoint.name \o "_negative_" \o field.name,
                        endpoint.name, "numeric_boundary", 422,
                        Some([key |-> field.name, value |-> Val(field.minimum) - 1]))>>
         \o (IF Val(field.minimum) > 0
             THEN <<TestScenario(endpoint.name \o "_zero_" \o field.name,
                                 endpoint.name, "numeric_boundary", 422,
                                 Some([key |-> field.name, value |-> 0]))>>
             ELSE <<>>)
    ELSE <<>>

\* 9. Numeric boundary tests
numeric_rule(endpoint) ==
    LET numeric_fields ==
            SelectSeq(endpoint.request_body,
                      LAMBDA f : f.minimum # None \/ f.maximum # None)
        chosen == Take(numeric_fields, 2)
    IN  Flatten([i \in DOMAIN chosen |-> numeric_scenarios(endpoint, chosen[i])])

\* The candidates of rules 1 to 8 for one endpoint, in the order of the code.
rules_before_numeric(context, endpoint) ==
    positive_rule(endpoint)
    \o no_auth_rule(endpoint)
    \o dependency_rule(endpoint)
    \o invalid_id_rule(endpoint)
    \o state_conflict_rule(endpoint)
    \o forbidden_role_rule(context, endpoint)
    \o field_validation_rule(endpoint)
    \o boundary_rule(endpoint)

RECURSIVE plan_endpoints(_, _, _, _)
\* The loop over context.endpoints from index i on: the scenarios list when
\* the loop ends, or when an attribute read raises.
plan_endpoints(context, existing_tests_set, i, scenarios) ==
    IF i > Len(context.endpoints)
    THEN [raised |-> "none", scenarios |-> scenarios]
    ELSE LET endpoint == context.endpoints[i]
             s8 == add_all(scenarios, existing_tests_set,
                           rules_before_numeric(context, endpoint))
         IN  IF numeric_filter_raises(endpoint)
             THEN [raised |-> "AttributeError", scenarios |-> s8]
             ELSE plan_endpoints(context, existing_tests_set, i + 1,
                                 add_all(s8, existing_tests_set, numeric_rule(endpoint)))

\* plan_tests(context, existing_tests): "scenarios" is the local list as it
\* stands when the function returns or raises; the descriptions and the
\* rationale are text built from the same values and are left out.
plan_tests(context, existing_tests) ==
    LET existing_tests_set == ToSet(existing_tests)
        loop == plan_endpoints(context, existing_tests_set, 1, <<>>)
    IN  IF loop.raised # "none" THEN loop
        ELSE LET plan == TestPlan(loop.scenarios)
             IN  [raised |-> plan.raised, scenarios |-> loop.scenarios]

(***************************************************************************)
(* context/schema_inference.py : Tier 1, the domain schema matcher         *)
(***************************************************************************)
\* The rule table: (path_keywords, method_filter, fields), in order.
DOMAIN_SCHEMAS == <<
    [keywords |-> <<"register", "signup", "sign-up">>,
     methods  |-> <<"POST">>,
     fields   |-> <<
        [name |-> "email", field_type |-> "string", format |-> Some("email"),
         required |-> TRUE, example |-> Some("user@example.com")],
        [name |-> "password", field_type |-> "string", format |-> Some("password"),
         required |-> TRUE, min_length |-> Some(8), example |-> Some("SecureP@ss123")],
        [name |-> "username", field_type |-> "string", required |-> FALSE,
         min_length |-> Some(3), max_length |-> Some(30), example |-> Some("john_doe")],
        [name |-> "full_name", field_type |-> "string", required |-> FALSE,
         example |-> Some("John Doe")]>>],
    [keywords |-> <<"login", "signin", "sign-in", "auth/token">>,
     methods  |-> <<"POST">>,
     fields   |-> <<
        [name |-> "email", field_type |-> "string", format |-> Some("email"),
         required |-> TRUE, example |-> Some("user@example.com")],
        [name |-> "password", field_type |-> "string", format |-> Some("password"),
         required |-> TRUE, example |-> Some("SecureP@ss123")]>>],
    [keywords |-> <<"orders", "order">>,
     methods  |-> <<"POST", "PUT">>,
     fields   |-> <<
        [name |-> "product_id", field_type |-> "string", format |-> Some("uuid"),
         required |-> TRUE, description |-> Some("Product to order")],
        [name |-> "quantity", field_type |-> "integer", required |-> TRUE,
         example |-> Some("2")],
        [name |-> "shipping_address", field_type |-> "string", required |-> TRUE,
         example |-> Some("123 Main St, Springfield, IL")],
        [name |-> "payment_method", field_type |-> "string", required |-> FALSE,
         enum |-> Some(<<"credit_card", "paypal", "bank_transfer">>),
         example |-> Some("credit_card")]>>],
    [keywords |-> <<"products", "product", "items", "item", "catalog">>,
     methods  |-> <<"POST", "PUT">>,
     fields   |-> <<
        [name |-> "name", field_type |-> "string", required |-> TRUE,
         example |-> Some("Wireless Headphones")],
        [name |-> "price", field_type |-> "number", required |-> TRUE,
         example |-> Some("79.99")],
        [name |-> "description", field_type |-> "string", required |-> FALSE,
         example |-> Some("Noise-cancelling over-ear headphones")],
        [name |-> "category", field_type |-> "string", required |-> FALSE,
         example |-> Some("electronics")],
        [name |-> "sku", field_type |-> "string", required |-> FALSE,
         example |-> Some("WH-1000XM5")]>>],
    [keywords |-> <<"users", "user", "profile", "profiles", "account">>,
     methods  |-> <<"POST", "PUT", "PATCH">>,
     fields   |-> <<
        [name |-> "name", field_type |-> "string", required |-> TRUE,
         example |-> Some("Jane Smith")],
        [name |-> "email", field_type |-> "string", format |-> Some("email"),
         required |-> TRUE, example |-> Some("jane@example.com")],
        [name |-> "phone", field_type |-> "string", format |-> Some("phone"),
         required |-> FALSE, example |-> Some("+1-555-0199")],
        [name |-> "role", field_type |-> "string", required |-> FALSE,
         enum |-> Some(<<"user", "admin", "moderator">>), example |-> Some("user")]>>],
    [keywords |-> <<"comments", "comment", "reviews", "review", "feedback">>,
     methods  |-> <<"POST">>,
     fields   |-> <<
        [name |-> "content", field_type |-> "string", required |-> TRUE,
         min_length |-> Some(1), max_length |-> Some(2000),
         example |-> Some("Great product, highly recommended!")],
        [name |-> "rating", field_type |-> "integer", required |-> FALSE,
         example |-> Some("5"), description |-> Some("Rating from 1-5")]>>],
    [keywords |-> <<"posts", "post", "articles", "article", "blog">>,
     methods  |-> <<"POST", "PUT">>,
     fields   |-> <<
        [name |-> "title", field_type |-> "string", required |-> TRUE,
         min_length |-> Some(1), max_length |-> Some(200),
         example |-> Some("Getting Started with API Testing")],
        [name |-> "body", field_type |-> "string", required |-> TRUE,
         example |-> Some("In this guide we explore...")],
        [name |-> "tags", field_type |-> "array", required |-> FALSE,
         example |-> Some("[\"testing\", \"api\"]")],
        [name |-> "published", field_type |-> "boolean", required |-> FALSE,
         example |-> Some("false")]>>],
    [keywords |-> <<"payments", "payment", "transactions", "transaction",
                    "charges", "charge">>,
     methods  |-> <<"POST">>,
     fields   |-> <<
        [name |-> "amount", field_type |-> "number", required |-> TRUE,
         example |-> Some("99.99")],
        [name |-> "currency", field_type |-> "string", required |-> TRUE,
         enum |-> Some(<<"USD", "EUR", "GBP", "INR">>), example |-> Some("USD")],
        [name |-> "payment_method", field_type |-> "string", required |-> TRUE,
         enum |-> Some(<<"credit_card", "paypal", "bank_transfer">>),
         example |-> Some("credit_card")],
        [name |-> "description", field_type |-> "string", required |-> FALSE,
         example |-> Some("Order #1234 payment")]>>],
    [keywords |-> <<"notifications", "notification", "alerts", "messages">>,
     methods  |-> <<"POST">>,
     fields   |-> <<
        [name |-> "recipient_id", field_type |-> "string", format |-> Some("uuid"),
         required |-> TRUE],
        [name |-> "title", field_type |-> "string", required |-> TRUE,
         example |-> Some("New order received")],
        [name |-> "message", field_type |-> "string", required |-> TRUE,
         example |-> Some("You have a new order #1234")],
        [name |-> "channel", field_type |-> "string", required |-> FALSE,
         enum |-> Some(<<"email", "sms", "push">>), example |-> Some("email")]>> ]>>

\* _extract_resource: /orders/:id -> order
extract_resource(url_path) ==
    LET parts == Split(Strip(url_path, "/"), "/")
        resource_parts ==
            SelectSeq(parts, LAMBDA q : ~StartsWith(q, ":") /\ ~StartsWith(q, "{"))
        resource == IF resource_parts # <<>> THEN resource_parts[1] ELSE "resource"
    IN  IF EndsWith(resource, "ies")
        THEN SubSeq(resource, 1, Len(resource) - 3) \o "y"
        ELSE IF EndsWith(resource, "s") /\ Len(resource) > 1
             THEN SubSeq(resource, 1, Len(resource) - 1)
             ELSE resource

\* _generic_request_fields
generic_request_fields(ep) ==
    LET resource == extract_resource(ep.url_path)
    IN  <<FieldSpec([name |-> "name", field_type |-> "string", required |-> TRUE,
                     example |-> Some("Test " \o Title(resource))]),
          FieldSpec([name |-> "description", field_type |-> "string", required |-> FALSE,
                     example |-> Some("Description for " \o resource)])>>

\* The rule at index k applies: its method filter admits the method and one
\* of its keywords is in the path string.
rule_applies(k, method, path_str) ==
    /\ ~(DOMAIN_SCHEMAS[k].methods # <<>> /\ method \notin ToSet(DOMAIN_SCHEMAS[k].methods))
    /\ \E j \in DOMAIN DOMAIN_SCHEMAS[k].keywords :
          Contains(path_str, DOMAIN_SCHEMAS[k].keywords[j])

\* _infer_request_fields, were the last rule that applies to win.
infer_request_fields_LastRule(ep) ==
    LET path_parts == Split(Strip(Lower(ep.url_path), "/"), "/")
        path_str == Join(path_parts, "/")
        hits == {k \in DOMAIN DOMAIN_SCHEMAS : rule_applies(k, ep.method, path_str)}
    IN  IF hits # {}
        THEN LET k == CHOOSE h \in hits : \A g \in hits : h >= g
             IN  [i \in DOMAIN DOMAIN_SCHEMAS[k].fields |->
                     FieldSpec(DOMAIN_SCHEMAS[k].fields[i])]
        ELSE generic_request_fields(ep)

\* _infer_request_fields: the first rule that applies, else the fallback.
infer_request_fields(ep) ==
    LET path_parts == Split(Strip(Lower(ep.url_path), "/"), "/")
        path_str == Join(path_parts, "/")
        hits == {k \in DOMAIN DOMAIN_SCHEMAS : rule_applies(k, ep.method, path_str)}
    IN  IF hits # {}
        THEN LET k == CHOOSE h \in hits : \A g \in hits : h <= g
             IN  [i \in DOMAIN DOMAIN_SCHEMAS[k].fields |->
                     FieldSpec(DOMAIN_SCHEMAS[k].fields[i])]
        ELSE generic_request_fields(ep)

\* _infer_response_fields: id, the request fields, the two timestamps.
infer_response_fields(ep) ==
    <<FieldSpec([name |-> "id", field_type |-> "string", format |-> Some("uuid"),
                 example |-> Some("550e8400-e29b-41d4-a716-446655440000")])>>
    \o ep.request_body
    \o <<FieldSpec([name |-> "created_at", field_type |-> "string",
                    format |-> Some("date-time"), required |-> FALSE,
                    example |-> Some("2025-06-15T10:30:00Z")]),
          FieldSpec([name |-> "updated_at", field_type |-> "string",
                    format |-> Some("date-time"), required |-> FALSE,
                    example |-> Some("2025-06-15T10:30:00Z")])>>

\* The first loop of infer_schemas, were it to assign the bodies whether or
\* not they are empty.
infer_bodies_Overwrite(ep) ==
    IF ep.method \in {"GET", "HEAD", "OPTIONS"}
    THEN [ep EXCEPT !.response_body = infer_response_fields(ep)]
    ELSE LET e1 == [ep EXCEPT !.request_body = infer_request_fields(ep)]
         IN  [e1 EXCEPT !.response_body = infer_response_fields(e1)]

\* The first loop of infer_schemas, for one endpoint.
infer_bodies(ep) ==
    IF ep.method \in {"GET", "HEAD", "OPTIONS"}
    THEN IF ep.response_body = <<>>
         THEN [ep EXCEPT !.response_body = infer_response_fields(ep)]
         ELSE ep
    ELSE LET e1 == IF ep.request_body = <<>>
                   THEN [ep EXCEPT !.request_body = infer_request_fields(ep)]
                   ELSE ep
         IN  IF e1.response_body = <<>>
             THEN [e1 EXCEPT !.response_body = infer_response_fields(e1)]
             ELSE e1

(***************************************************************************)
(* Regular expressions over the requirements text.  The text is cut into   *)
(* tokens (maximal runs of \w characters, maximal runs of whitespace, and  *)
(* every other character by itself); each pattern of the code is matched   *)
(* token by token, its alternatives tried in the order the regex engine    *)
(* tries them.                                                             *)
(***************************************************************************)
Digits == {"0", "1", "2", "3", "4", "5", "6", "7", "8", "9"}
Whitespace == {" ", "\t", "\n"}
Quotes == {"'", "\""}

IsWordChar(c) == IsLetter(c) \/ c \in Digits \/ c = "_"

CharClass(c) == IF IsWordChar(c) THEN "w" ELSE IF c \in Whitespace THEN "s" ELSE "o"

RECURSIVE RunLen(_, _)
\* The number of leading characters of s of class cls.
RunLen(s, cls) ==
    IF Len(s) > 0 /\ CharClass(SubSeq(s, 1, 1)) = cls
    THEN 1 + RunLen(SubSeq(s, 2, Len(s)), cls)
    ELSE 0

RECURSIVE Tokenize(_)
Tokenize(s) ==
    IF Len(s) = 0 THEN <<>>
    ELSE LET cls == CharClass(SubSeq(s, 1, 1))
             n == IF cls = "o" THEN 1 ELSE RunLen(s, cls)
         IN  <<SubSeq(s, 1, n)>> \o Tokenize(SubSeq(s, n + 1, Len(s)))

Tok(t, i) == IF i \in DOMAIN t THEN t[i] ELSE ""
IsWord(t, i) == i \in DOMAIN t /\ CharClass(SubSeq(t[i], 1, 1)) = "w"
IsSpace(t, i) == i \in DOMAIN t /\ CharClass(SubSeq(t[i], 1, 1)) = "s"

NoMatch == [ok |-> FALSE]

\* ['\"]?(\w+)['\"]?  at token v: the word and the last token matched.
ValueAt(t, v) ==
    LET w == IF Tok(t, v) \in Quotes THEN v + 1 ELSE v
    IN  IF IsWord(t, w)
        THEN [ok |-> TRUE, value |-> t[w],
              last |-> IF Tok(t, w + 1) \in Quotes THEN w + 1 ELSE w]
        ELSE NoMatch

\* (\w+(?:ed|led)?)\s+(?:if|when)\s+(?:the\s+)?status\s+(?:is|=|==)\s+['\"]?(\w+)['\"]?
\* with the verb at token i.
StatusIsAt(t, i) ==
    IF IsWord(t, i) /\ IsSpace(t, i + 1) /\ Tok(t, i + 2) \in {"if", "when"}
       /\ IsSpace(t, i + 3)
    THEN LET k == IF Tok(t, i + 4) = "the" /\ IsSpace(t, i + 5) THEN i + 6 ELSE i + 4
             v == IF Tok(t, k + 2) \in {"is", "="} /\ IsSpace(t, k + 3) THEN k + 4
                  ELSE IF Tok(t, k + 2) = "=" /\ Tok(t, k + 3) = "=" /\ IsSpace(t, k + 4)
                       THEN k + 5 ELSE 0
         IN  IF Tok(t, k) = "status" /\ IsSpace(t, k + 1) /\ v > 0
             THEN ValueAt(t, v)
             ELSE NoMatch
    ELSE NoMatch

\* can\s+only\s+be\s+  ending at token i + 5, begun at the end of token i
CanOnlyBeAt(t, i) ==
    /\ EndsWith(Tok(t, i), "can") /\ IsSpace(t, i + 1)
    /\ Tok(t, i + 2) = "only" /\ IsSpace(t, i + 3)
    /\ Tok(t, i + 4) = "be" /\ IsSpace(t, i + 5)

\* The text of tokens i..j, the first one cut to its suffix `first`.
MatchText(t, i, j, first) ==
    first \o Join(SubSeq(t, i + 1, j), "")

\* STATE_PATTERNS[0] at token i: group 1 is the verb, group 2 the value.
AllowedPatternAt(t, i) ==
    LET withPrefix == IF CanOnlyBeAt(t, i) THEN StatusIsAt(t, i + 6) ELSE NoMatch
        bare == StatusIsAt(t, i)
    IN  IF Tok(t, i) = "can" /\ withPrefix.ok
        THEN [ok |-> TRUE, g1 |-> t[i + 6], g2 |-> Some(withPrefix.value),
              last |-> withPrefix.last, rem |-> "",
              text |-> MatchText(t, i, withPrefix.last, t[i])]
        ELSE IF bare.ok
        THEN [ok |-> TRUE, g1 |-> t[i], g2 |-> Some(bare.value),
              last |-> bare.last, rem |-> "",
              text |-> MatchText(t, i, bare.last, t[i])]
        ELSE IF withPrefix.ok
        THEN [ok |-> TRUE, g1 |-> t[i + 6], g2 |-> Some(withPrefix.value),
              last |-> withPrefix.last, rem |-> "",
              text |-> MatchText(t, i, withPrefix.last, "can")]
        ELSE NoMatch

\* status\s+(?:is|=)\s+  at token k
StatusGroupAt(t, k) ==
    /\ Tok(t, k) = "status" /\ IsSpace(t, k + 1)
    /\ Tok(t, k + 2) \in {"is", "="} /\ IsSpace(t, k + 3)

\* STATE_PATTERNS[1] at token i:
\* cannot\s+(\w+)\s+(?:if|when)\s+(?:the\s+)?(?:status\s+(?:is|=)\s+)?['\"]?(\w+)['\"]?
BlockedPatternAt(t, i) ==
    IF EndsWith(Tok(t, i), "cannot") /\ IsSpace(t, i + 1) /\ IsWord(t, i + 2)
       /\ IsSpace(t, i + 3) /\ Tok(t, i + 4) \in {"if", "when"} /\ IsSpace(t, i + 5)
    THEN LET j == i + 6
             the == Tok(t, j) = "the" /\ IsSpace(t, j + 1)
             tries == <<IF the /\ StatusGroupAt(t, j + 2) THEN ValueAt(t, j + 6) ELSE NoMatch,
                        IF the THEN ValueAt(t, j + 2) ELSE NoMatch,
                        IF StatusGroupAt(t, j) THEN ValueAt(t, j + 4) ELSE NoMatch,
                        ValueAt(t, j)>>
             hits == {n \in DOMAIN tries : tries[n].ok}
         IN  IF hits # {}
             THEN LET m == tries[CHOOSE n \in hits : \A o \in hits : n <= o]
                  IN  [ok |-> TRUE, g1 |-> t[i + 2], g2 |-> Some(m.value),
                       last |-> m.last, rem |-> "",
                       text |-> MatchText(t, i, m.last, "cannot")]
             ELSE NoMatch
    ELSE NoMatch

\* ROLE_PATTERNS[0] at token i:  (\w+)\s+(?:users?\s+)?can\s+(?:only\s+)?(\w+)
RoleCanPatternAt(t, i) ==
    IF IsWord(t, i) /\ IsSpace(t, i + 1)
    THEN LET k == IF Tok(t, i + 2) \in {"user", "users"} /\ IsSpace(t, i + 3)
                  THEN i + 4 ELSE i + 2
             m == k + 2
             a == IF Tok(t, m) = "only" /\ IsSpace(t, m + 1) /\ IsWord(t, m + 2)
                  THEN m + 2 ELSE m
         IN  IF Tok(t, k) = "can" /\ IsSpace(t, k + 1) /\ IsWord(t, a)
             THEN [ok |-> TRUE, g1 |-> t[i], g2 |-> Some(t[a]), last |-> a, rem |-> "",
                   text |-> MatchText(t, i, a, t[i])]
             ELSE NoMatch
    ELSE NoMatch

\* The greatest n > 1 with "_auth" at position n of w, or 0.
LastAuthAt(w) ==
    LET at == {n \in 2..(Len(w) - 4) : SubSeq(w, n, n + 4) = "_auth"}
    IN  IF at = {} THEN 0 ELSE CHOOSE n \in at : \A o \in at : o <= n

\* ROLE_PATTERNS[1] at token i:  (?:requires?\s+)(\w+)_auth
RequiresAuthPatternAt(t, i) ==
    LET w == Tok(t, i + 2)
        n == LastAuthAt(w)
    IN  IF (EndsWith(Tok(t, i), "require") \/ EndsWith(Tok(t, i), "requires"))
           /\ IsSpace(t, i + 1) /\ n > 0
        THEN [ok |-> TRUE, g1 |-> SubSeq(w, 1, n - 1), g2 |-> None, last |-> i + 2,
              rem |-> SubSeq(w, n + 5, Len(w)),
              text |-> (IF EndsWith(t[i], "requires") THEN "requires" ELSE "require")
                       \o t[i + 1] \o SubSeq(w, 1, n + 4)]
        ELSE NoMatch

\* ROLE_PATTERNS[2] at token i:  (\w+)\s+role\s+(?:is\s+)?required
RoleRequiredPatternAt(t, i) ==
    IF IsWord(t, i) /\ IsSpace(t, i + 1) /\ Tok(t, i + 2) = "role" /\ IsSpace(t, i + 3)
    THEN LET r == IF Tok(t, i + 4) = "is" /\ IsSpace(t, i + 5)
                     /\ StartsWith(Tok(t, i + 6), "required")
                  THEN i + 6 ELSE i + 4
         IN  IF StartsWith(Tok(t, r), "required")
             THEN [ok |-> TRUE, g1 |-> t[i], g2 |-> None, last |-> r,
                   rem |-> SubSeq(t[r], 9, Len(t[r])),
                   text |-> MatchText(t, i, r - 1, t[i]) \o "required"]
             ELSE NoMatch
    ELSE NoMatch

PatternAt(pat, t, i) ==
    CASE pat = "allowed" -> AllowedPatternAt(t, i)
      [] pat = "blocked" -> BlockedPatternAt(t, i)
      [] pat = "role_can" -> RoleCanPatternAt(t, i)
      [] pat = "requires_auth" -> RequiresAuthPatternAt(t, i)
      [] pat = "role_required" -> RoleRequiredPatternAt(t, i)

RECURSIVE FindIter(_, _)

\* The matches in the tokens t, the first of which starts at the least of
\* starts.
FindAt(pat, t, starts) ==
    IF starts = {} THEN <<>>
    ELSE CHOOSE ms \in
             {<<m>> \o FindIter(pat, (IF m.rem # "" THEN <<m.rem>> ELSE <<>>)
                                       \o SubSeq(t, m.last + 1, Len(t))) :
                 m \in {PatternAt(pat, t, Min(starts))}} : TRUE

\* re.finditer(pattern, text): the non-overlapping matches, left to right.
\* (A variable bound in {e} holds the value of e, which is computed once.)
FindIter(pat, tokens) ==
    CHOOSE ms \in
        {FindAt(pat, t, starts) :
            t \in {tokens}, starts \in {{i \in DOMAIN tokens : PatternAt(pat, tokens, i).ok}}} :
        TRUE

(***************************************************************************)
(* context/schema_inference.py : Tier 1, the constraint extractor          *)
(***************************************************************************)
\* re.sub(r"(ed|led|d)$", "", action): the leftmost match is removed.
action_stem(action) ==
    IF EndsWith(action, "led") THEN SubSeq(action, 1, Len(action) - 3)
    ELSE IF EndsWith(action, "ed") THEN SubSeq(action, 1, Len(action) - 2)
    ELSE IF EndsWith(action, "d") THEN SubSeq(action, 1, Len(action) - 1)
    ELSE action

\* _action_matches_endpoint
action_matches_endpoint(action, ep) ==
    LET stem == action_stem(action)
    IN  Contains(Lower(ep.url_path), stem) \/ Contains(Lower(ep.name), stem)

\* The test of the loop over endpoints in _extract_state_constraints.
endpoint_matches_action(action, ep) ==
    LET ep_keywords == Lower(ep.name) \o " " \o Lower(ep.url_path)
    IN  Contains(ep_keywords, action) \/ action_matches_endpoint(action, ep)

\* The constraint a match of STATE_PATTERNS[k] gives.
match_constraint(pat, m) ==
    StateConstraint("status",
                    IF pat = "allowed" THEN <<Lower(Val(m.g2))>> ELSE <<>>,
                    IF pat = "blocked" THEN <<Lower(Val(m.g2))>> ELSE <<>>,
                    m.text, DefaultErrorCode)

\* The body of the loop over matches, were the constraint appended without
\* the test "constraint not in ep.state_constraints".
attach_constraint_NoDedup(endpoints, action, constraint) ==
    LET hits == {i \in DOMAIN endpoints : endpoint_matches_action(action, endpoints[i])}
    IN  IF hits = {} THEN endpoints
        ELSE [endpoints EXCEPT ![Min(hits)].state_constraints = Append(@, constraint)]

\* The body of the loop over matches: the first endpoint that matches the
\* action gets the constraint, unless it has an equal one.
attach_constraint(endpoints, action, constraint) ==
    LET hits == {i \in DOMAIN endpoints : endpoint_matches_action(action, endpoints[i])}
    IN  IF hits = {} THEN endpoints
        ELSE LET i == Min(hits)
             IN  IF constraint \notin ToSet(endpoints[i].state_constraints)
                 THEN [endpoints EXCEPT ![i].state_constraints = Append(@, constraint)]
                 ELSE endpoints

RECURSIVE attach_matches(_, _, _)
\* The loop over the matches of one pattern.
attach_matches(endpoints, pat, ms) ==
    IF ms = <<>> THEN endpoints
    ELSE CHOOSE out \in
             {attach_matches(attached, pat, Tail(ms)) :
                 attached \in {attach_constraint(endpoints, Lower(Head(ms).g1),
                                                  match_constraint(pat, Head(ms)))}} : TRUE

\* _extract_state_constraints
extract_state_constraints(endpoints, text) ==
    CHOOSE out \in
        {CHOOSE e2 \in {attach_matches(e1, "blocked", blocked) :
                            e1 \in {attach_matches(eps, "allowed", allowed)}} : TRUE :
            eps \in {endpoints},
            allowed \in {FindIter("allowed", Tokenize(Lower(text)))},
            blocked \in {FindIter("blocked", Tokenize(Lower(text)))}} : TRUE

RoleVocabulary == {"user", "admin", "moderator", "manager", "editor", "viewer", "owner"}

\* The matches of the three role patterns, in the order the code finds
\* them, that name a recognized role.
role_matches(text) ==
    CHOOSE ms \in
        {SelectSeq(FindIter("role_can", t) \o FindIter("requires_auth", t)
                       \o FindIter("role_required", t),
                   LAMBDA m : Lower(m.g1) \in RoleVocabulary) :
            t \in {Tokenize(Lower(text))}} : TRUE

RECURSIVE Dedup(_)
\* The elements of xs in the order of their first occurrence.
Dedup(xs) ==
    IF xs = <<>> THEN <<>>
    ELSE LET init == Dedup(SubSeq(xs, 1, Len(xs) - 1))
             x == xs[Len(xs)]
         IN  IF x \in ToSet(init) THEN init ELSE Append(init, x)

\* list(role_mentions.keys())
mentioned_roles(ms) == Dedup([i \in DOMAIN ms |-> Lower(ms[i].g1)])

\* role_mentions[role]
mentioned_actions(ms, role) ==
    LET with_action == SelectSeq(ms, LAMBDA m : Lower(m.g1) = role /\ m.g2 # None)
    IN  [i \in DOMAIN with_action |-> Lower(Val(with_action[i].g2))]

\* re.sub(r"(e?s|ed|ing)$", "", action)
role_action_stem(action) ==
    IF EndsWith(action, "ing") THEN SubSeq(action, 1, Len(action) - 3)
    ELSE IF EndsWith(action, "es") \/ EndsWith(action, "ed")
         THEN SubSeq(action, 1, Len(action) - 2)
    ELSE IF EndsWith(action, "s") THEN SubSeq(action, 1, Len(action) - 1)
    ELSE action

method_map ==
    [get |-> "GET", creat |-> "POST", updat |-> "PUT", delet |-> "DELETE",
     remov |-> "DELETE", cancel |-> "DELETE"]

role_action_matches(action, ep) ==
    LET stem == role_action_stem(action)
    IN  \/ Contains(Lower(ep.name), stem) \/ Contains(Lower(ep.url_path), stem)
        \/ (stem \in DOMAIN method_map /\ method_map[stem] = ep.method)

\* The assignment of roles to one endpoint, were it made without the test
\* "if ep.requires_auth".
assign_roles_NoAuthTest(ep, ms, set_order) ==
    LET roles_list == mentioned_roles(ms)
        matched_roles ==
            {r \in ToSet(roles_list) :
                \E j \in DOMAIN mentioned_actions(ms, r) :
                    role_action_matches(mentioned_actions(ms, r)[j], ep)}
    IN  IF matched_roles # {}
        THEN [ep EXCEPT !.roles = SelectSeq(set_order, LAMBDA r : r \in matched_roles)]
        ELSE IF ep.roles = <<>> THEN [ep EXCEPT !.roles = roles_list]
             ELSE ep

\* The assignment of roles to one endpoint.  list(matched_roles) lists a set
\* in the interpreter's iteration order, which set_order stands for.
assign_roles(ep, ms, set_order) ==
    IF ep.requires_auth
    THEN LET roles_list == mentioned_roles(ms)
             matched_roles ==
                 {r \in ToSet(roles_list) :
                     \E j \in DOMAIN mentioned_actions(ms, r) :
                         role_action_matches(mentioned_actions(ms, r)[j], ep)}
         IN  IF matched_roles # {}
             THEN [ep EXCEPT !.roles = SelectSeq(set_order, LAMBDA r : r \in matched_roles)]
             ELSE IF ep.roles = <<>> THEN [ep EXCEPT !.roles = roles_list]
                  ELSE ep
    ELSE ep

\* _extract_roles
extract_roles(endpoints, text, set_order) ==
    CHOOSE out \in
        {IF ms # <<>>
         THEN [i \in DOMAIN eps |-> assign_roles(eps[i], ms, set_order)]
         ELSE eps :
            eps \in {endpoints}, ms \in {role_matches(text)}} : TRUE

\* Stages 1 and 2 of infer_schemas: the Tier-1 result.
tier1(endpoints, requirements_text, set_order) ==
    LET e1 == [i \in DOMAIN endpoints |-> infer_bodies(endpoints[i])]
    IN  IF requirements_text # ""
        THEN extract_roles(extract_state_constraints(e1, requirements_text),
                           requirements_text, set_order)
        ELSE e1

(***************************************************************************)
(* context/schema_inference.py : Tier 2, the optional refinement.          *)
(* A decoded JSON value is a record of its Python type t and, for a dict,   *)
(* its value v, a record whose domain is the set of the keys.              *)
(***************************************************************************)
\* d.get(k, default)
Get(d, k, default) == IF k \in DOMAIN d THEN d[k] ELSE default

\* s.split(" ", 1)
SplitOnce(s) ==
    LET at == {i \in 1..Len(s) : SubSeq(s, i, i) = " "}
    IN  IF at = {} THEN <<s>>
        ELSE LET i == CHOOSE n \in at : \A o \in at : n <= o
             IN  <<SubSeq(s, 1, i - 1), SubSeq(s, i + 1, Len(s))>>

RECURSIVE add_fields(_, _)
\* The loop over add_fields: the request body when the loop ends or raises.
add_fields(request_body, field_datas) ==
    IF field_datas = <<>> THEN [raised |-> "none", request_body |-> request_body]
    ELSE LET field_data == Head(field_datas)
             present == /\ "name" \in DOMAIN field_data
                        /\ \E i \in DOMAIN request_body :
                               request_body[i].name = field_data.name
         IN  IF present THEN add_fields(request_body, Tail(field_datas))
             ELSE IF FieldSpec_raises(field_data)
                  THEN [raised |-> "ValidationError", request_body |-> request_body]
                  ELSE add_fields(Append(request_body, FieldSpec(field_data)),
                                  Tail(field_datas))

RECURSIVE add_state_constraints(_, _)
\* The loop over state_constraints of a correction.
add_state_constraints(state_constraints, sc_datas) ==
    IF sc_datas = <<>> THEN state_constraints
    ELSE LET sc_data == Head(sc_datas)
             constraint ==
                 StateConstraint(Get(sc_data, "field", "status"),
                                 Get(sc_data, "allowed_values", <<>>),
                                 Get(sc_data, "blocked_values", <<>>),
                                 Get(sc_data, "description", ""),
                                 DefaultErrorCode)
         IN  add_state_constraints(
                 IF constraint \notin ToSet(state_constraints)
                 THEN Append(state_constraints, constraint)
                 ELSE state_constraints,
                 Tail(sc_datas))

\* One iteration of the loop of _apply_corrections.  The endpoints are
\* changed in place, so what was done before a raise stays done.
apply_correction(endpoints, correction) ==
    IF correction.t # "dict"
    THEN [raised |-> "AttributeError", endpoints |-> endpoints]
    ELSE LET c == correction.v
             parts == SplitOnce(Get(c, "endpoint", ""))
             hits == IF Len(parts) # 2 THEN {}
                     ELSE {i \in DOMAIN endpoints :
                              /\ endpoints[i].method = Upper(parts[1])
                              /\ endpoints[i].url_path = parts[2]}
         IN  IF hits = {} THEN [raised |-> "none", endpoints |-> endpoints]
             ELSE LET i == CHOOSE n \in hits : \A o \in hits : n <= o
                      ep == endpoints[i]
                      remove_names == ToSet(Get(c, "remove_fields", <<>>))
                      kept == IF remove_names # {}
                              THEN SelectSeq(ep.request_body,
                                             LAMBDA f : f.name \notin remove_names)
                              ELSE ep.request_body
                      added == add_fields(kept, Get(c, "add_fields", <<>>))
                      ep1 == [ep EXCEPT !.request_body = added.request_body]
                  IN  IF added.raised # "none"
                      THEN [raised |-> added.raised,
                            endpoints |-> [endpoints EXCEPT ![i] = ep1]]
                      ELSE [raised |-> "none",
                            endpoints |->
                                [endpoints EXCEPT ![i] =
                                    [ep1 EXCEPT !.state_constraints =
                                        add_state_constraints(
                                            @, Get(c, "state_constraints", <<>>))]]]

RECURSIVE apply_corrections(_, _)
\* _apply_corrections
apply_corrections(endpoints, corrections) ==
    IF corrections = <<>> THEN [raised |-> "none", endpoints |-> endpoints]
    ELSE CHOOSE out \in
             {IF r.raised # "none" THEN r
              ELSE apply_corrections(r.endpoints, Tail(corrections)) :
                 r \in {apply_correction(endpoints, Head(corrections))}} : TRUE

\* config.py : Settings.has_api_key
has_api_key(settings) ==
    IF settings.llm_provider = "openrouter" THEN settings.openrouter_api_key # ""
    ELSE IF settings.llm_provider = "azure"
         THEN settings.azure_api_key # "" /\ settings.azure_endpoint # ""
    ELSE settings.llm_provider \in {"ollama", "vllm", "tgi"}

\* adapters/registry.py : the providers and the is_local attribute of
\* their adapter classes.
ADAPTER_CLASSES == {"openrouter", "ollama", "vllm", "tgi", "azure"}
is_local(provider) == provider \in {"ollama", "vllm", "tgi"}

\* adapters/registry.py : get_adapter, the error it raises if any.
get_adapter_raises(settings) ==
    IF settings.llm_provider \notin ADAPTER_CLASSES THEN "ProviderUnavailableError"
    ELSE IF ~settings.allow_external_calls /\ ~is_local(settings.llm_provider)
         THEN "PrivacyViolationError"
    ELSE "none"

\* The statements of the try block of _try_llm_refinement.  env.chat is what
\* adapter.chat does: it raises, or it returns a text, given by what
\* json.loads makes of it once the fences are stripped.
refinement_body(endpoints, env) ==
    LET settings == env.settings
        chat == env.chat
    IN  IF ~has_api_key(settings) /\ settings.llm_provider \in {"openrouter", "azure"}
        THEN [raised |-> "none", endpoints |-> endpoints, log |-> "none"]
        ELSE IF get_adapter_raises(settings) # "none"
        THEN [raised |-> get_adapter_raises(settings), endpoints |-> endpoints,
              log |-> "none"]
        ELSE IF chat.raised # "none"
        THEN [raised |-> chat.raised, endpoints |-> endpoints, log |-> "none"]
        ELSE IF ~chat.json
        THEN [raised |-> "JSONDecodeError", endpoints |-> endpoints, log |-> "none"]
        ELSE IF chat.value.t # "dict"
        THEN [raised |-> "AttributeError", endpoints |-> endpoints, log |-> "none"]
        ELSE LET r == apply_corrections(endpoints,
                                        Get(chat.value.v, "corrections", <<>>))
             IN  [raised |-> r.raised, endpoints |-> r.endpoints,
                  log |-> IF r.raised = "none" THEN "applied" ELSE "none"]

\* _try_llm_refinement without its except clause.
try_llm_refinement_NoExcept(endpoints, requirements_text, env) ==
    IF requirements_text = ""
    THEN [raised |-> "none", endpoints |-> endpoints, log |-> "none"]
    ELSE refinement_body(endpoints, env)

\* _try_llm_refinement: every Exception of the try block is caught and
\* logged.
try_llm_refinement(endpoints, requirements_text, env) ==
    IF requirements_text = ""
    THEN [raised |-> "none", endpoints |-> endpoints, log |-> "none"]
    ELSE LET r == refinement_body(endpoints, env)
         IN  IF r.raised # "none"
             THEN [raised |-> "none", endpoints |-> r.endpoints, log |-> "skipped"]
             ELSE r

(***************************************************************************)
(* Specification of the data models: one constructor call                  *)
(***************************************************************************)
MethodInputs ==
    {"GET", "get", "POST", "post", "Post", "PUT", "DELETE", "delete",
     "PATCH", "HEAD", "OPTIONS", "FETCH", ""}

SuccessCodeInputs == {None, Some(200), Some(201), Some(202), Some(204), Some(404)}

EndpointCalls ==
    {[EndpointArgs("a", m, "/orders") EXCEPT !.expected_success_code = c] :
        m \in MethodInputs, c \in SuccessCodeInputs}

\* Endpoints handed to SystemContext(...): already constructed, so valid.
ContextEndpointInputs ==
    {Endpoint([EndpointArgs(n, "GET", "/orders") EXCEPT !.depends_on = d]).value :
        n \in {"a", "b"}, d \in {<<>>, <<"b">>, <<"ghost">>}}

DependencyLists == {<<>>, <<"a">>, <<"a", "b">>, <<"ghost">>, <<"a", "ghost">>}

DependencyMaps == UNION {[K -> DependencyLists] : K \in SUBSET {"a", "b"}}

SystemContextCalls ==
    {[endpoints |-> eps, auth_rules |-> <<>>, dependencies |-> deps] :
        eps \in SeqsUpTo(ContextEndpointInputs, MaxEndpoints),
        deps \in DependencyMaps}

ScenarioInputs ==
    {TestScenario(n, "a", "positive", 200, None) : n \in {"a_positive", "a_no_auth"}}

TestPlanCalls ==
    {[scenarios |-> scs] : scs \in SeqsUpTo(ScenarioInputs, MaxScenarios)}

InitModels ==
    /\ \/ op = "Endpoint" /\ args \in EndpointCalls
       \/ op = "SystemContext" /\ args \in SystemContextCalls
       \/ op = "TestPlan" /\ args \in TestPlanCalls
    /\ result = Pending
    /\ done = FALSE

ConstructEndpoint ==
    /\ op = "Endpoint" /\ ~done
    /\ result' = Endpoint(args)
    /\ done' = TRUE
    /\ UNCHANGED <<op, args>>

ConstructSystemContext ==
    /\ op = "SystemContext" /\ ~done
    /\ result' = SystemContext(args)
    /\ done' = TRUE
    /\ UNCHANGED <<op, args>>

ConstructTestPlan ==
    /\ op = "TestPlan" /\ ~done
    /\ result' = TestPlan(args.scenarios)
    /\ done' = TRUE
    /\ UNCHANGED <<op, args>>

NextModels == ConstructEndpoint \/ ConstructSystemContext \/ ConstructTestPlan

SpecModels == InitModels /\ [][NextModels]_vars

(***************************************************************************)
(* Claims about the data models                                            *)
(***************************************************************************)
HasDuplicateNames(scs) ==
    \E i, j \in DOMAIN scs : i # j /\ scs[i].test_name = scs[j].test_name

\* C5: TestPlan(scenarios) raises a validation error when two scenarios
\* share a test_name, and constructs the plan (with the scenarios as given)
\* exactly when the test_names are pairwise distinct.
C5_TestPlanRejectsDuplicates ==
    (op = "TestPlan" /\ done) =>
        /\ HasDuplicateNames(args.scenarios) => result.raised = "ValidationError"
        /\ ~HasDuplicateNames(args.scenarios) =>
              /\ result.raised = "none"
              /\ result.value.scenarios = args.scenarios

C5_Witness ==
    /\ op = "TestPlan" /\ done
    /\ HasDuplicateNames(args.scenarios)
    /\ result.raised = "ValidationError"

DanglingDependency(a) ==
    \E k \in DOMAIN a.dependencies : \E j \in DOMAIN a.dependencies[k] :
        \A i \in DOMAIN a.endpoints : a.endpoints[i].name # a.dependencies[k][j]

UniqueEndpointNames(eps) ==
    \A i, j \in DOMAIN eps : eps[i].name = eps[j].name => i = j

\* C6: SystemContext(...) raises a validation error whenever some value list
\* of its dependencies map names no endpoint of its endpoints list; when
\* every referenced name exists (and the endpoints list itself is valid, its
\* names unique), construction succeeds.
C6_DependenciesMustExist ==
    (op = "SystemContext" /\ done) =>
        /\ DanglingDependency(args) => result.raised = "ValidationError"
        /\ (~DanglingDependency(args) /\ UniqueEndpointNames(args.endpoints)) =>
              result.raised = "none"

C6_Witness ==
    /\ op = "SystemContext" /\ done
    /\ UniqueEndpointNames(args.endpoints)
    /\ DanglingDependency(args)
    /\ result.raised = "ValidationError"

DanglingDependsOn(eps) ==
    \E i \in DOMAIN eps : \E j \in DOMAIN eps[i].depends_on :
        \A k \in DOMAIN eps : eps[k].name # eps[i].depends_on[j]

\* C7: SystemContext(...) fails whenever some endpoint's depends_on names no
\* endpoint of the context, so every constructed context has only depends_on
\* entries that refer to existing endpoints.
C7_DependsOnMustExist ==
    (op = "SystemContext" /\ done /\ result.raised = "none") =>
        ~DanglingDependsOn(result.value.endpoints)

\* C8: an Endpoint constructed without expected_success_code has 201 for
\* POST, 204 for DELETE and 200 otherwise; one constructed with an explicit
\* expected_success_code keeps exactly that value.
C8_SuccessCode ==
    (op = "Endpoint" /\ done /\ result.raised = "none") =>
        IF args.expected_success_code = None
        THEN result.value.expected_success_code =
                 (IF result.value.method = "POST" THEN 201
                  ELSE IF result.value.method = "DELETE" THEN 204 ELSE 200)
        ELSE result.value.expected_success_code = Val(args.expected_success_code)

(***************************************************************************)
(* Specification of the planner: one call of plan_tests                    *)
(***************************************************************************)
EndpointNameAt == <<"a", "b", "c", "d">>

FieldInputs ==
    {FieldSpec([name |-> "email", format |-> Some("email")]),
     FieldSpec([name |-> "phone", format |-> Some("phone"), required |-> FALSE,
                min_length |-> Some(7), max_length |-> Some(15)]),
     FieldSpec([name |-> "username", min_length |-> Some(3)])}

\* Request bodies with a field whose min_length is 1.
MinimalLengthBodies ==
    {<<FieldSpec([name |-> "code", required |-> FALSE, min_length |-> Some(1)])>>,
     <<FieldSpec([name |-> "username", min_length |-> Some(3)]),
       FieldSpec([name |-> "code", required |-> FALSE, min_length |-> Some(1)])>>}

ConstraintInputs ==
    {StateConstraint("status", <<"pending">>, <<>>, "cancelled if status is pending", 409),
     StateConstraint("status", <<>>, <<"shipped">>, "cannot cancel if shipped", 409),
     StateConstraint("status", <<"active">>, <<"shipped", "delivered">>, "rule", 423)}

\* Constraint lists with a rule that allows the state completed only.
CompletedOnlyConstraints ==
    {<<StateConstraint("state", <<"completed">>, <<>>,
                       "archived if state is completed", 409)>>}

RoleListInputs == {<<>>, <<"admin">>, <<"user">>, <<"user", "admin">>}

\* Keyword arguments of the endpoint of a context that carries annotations:
\* each family varies one group of annotations and leaves the others empty.
RichEndpointArgs ==
    {[EndpointArgs("a", "GET", p) EXCEPT !.requires_auth = auth, !.depends_on = d] :
        p \in {"/orders", "/orders/:id"}, auth \in BOOLEAN,
        d \in SeqsUpTo({"b", "login"}, MaxDeps)}
    \cup
    {[EndpointArgs("a", "POST", p) EXCEPT !.requires_auth = auth] :
        p \in {"/orders", "/orders/{id}/notes", "/orders/:orderId/notes",
               "/orders/:identity"},
        auth \in BOOLEAN}
    \cup
    {[EndpointArgs("a", "DELETE", p) EXCEPT !.state_constraints = cs] :
        p \in {"/orders/:id/cancel"}, cs \in SeqsUpTo(ConstraintInputs, MaxConstraints) \cup CompletedOnlyConstraints}
    \cup
    {[EndpointArgs("a", "PUT", "/orders/:id") EXCEPT !.requires_auth = auth, !.roles = r] :
        auth \in BOOLEAN, r \in RoleListInputs}
    \cup
    {[EndpointArgs("a", "POST", "/users") EXCEPT !.request_body = b] :
        b \in SeqsUpTo(FieldInputs, MaxBody) \cup MinimalLengthBodies}

\* Keyword arguments of the other endpoints of a context.
PeerEndpointArgs ==
    <<EndpointArgs("a", "GET", "/products"),
      [EndpointArgs("a", "POST", "/products") EXCEPT !.requires_auth = TRUE,
                                                    !.roles = <<"admin">>],
      [EndpointArgs("a", "DELETE", "/products/:id")
           EXCEPT !.requires_auth = TRUE, !.roles = <<"viewer", "editor", "admin">>]>>

\* The endpoint lists of the contexts planned: up to MaxEndpoints endpoints
\* named a, b, ... in order, at most one of them (the one at index p)
\* annotated.
PlannerEndpointLists ==
    UNION {
        {[i \in 1..n |->
            [(IF i = p THEN r ELSE PeerEndpointArgs[ks[i]]) EXCEPT !.name = EndpointNameAt[i]]] :
            p \in 0..n, r \in RichEndpointArgs, ks \in [1..n -> DOMAIN PeerEndpointArgs]}
        : n \in 1..MaxEndpoints}

PlannerContexts ==
    {SystemContext([endpoints    |-> [i \in DOMAIN eps |-> Endpoint(eps[i]).value],
                    auth_rules   |-> <<>>,
                    dependencies |-> <<>>]).value : eps \in PlannerEndpointLists}

ExistingNamePool == {"a_positive", "a_no_auth", "a_state_conflict_status", "b_positive"}

RECURSIVE SetToSeq(_)
SetToSeq(S) ==
    IF S = {} THEN <<>>
    ELSE LET x == CHOOSE y \in S : TRUE IN <<x>> \o SetToSeq(S \ {x})

ExistingInputs ==
    {SetToSeq(S) : S \in {T \in SUBSET ExistingNamePool : Cardinality(T) <= MaxExisting}}

InitPlanner ==
    /\ op = "plan_tests"
    /\ args \in [context : PlannerContexts, existing_tests : ExistingInputs]
    /\ result = Pending
    /\ done = FALSE

PlanTests ==
    /\ op = "plan_tests" /\ ~done
    /\ result' = plan_tests(args.context, args.existing_tests)
    /\ done' = TRUE
    /\ UNCHANGED <<op, args>>

NextPlanner == PlanTests

SpecPlanner == InitPlanner /\ [][NextPlanner]_vars

(***************************************************************************)
(* Claims about the planner                                                *)
(***************************************************************************)
ScenarioNames(scs) == [i \in DOMAIN scs |-> scs[i].test_name]

\* C1: for every valid context and every existing_tests list the scenario
\* names plan_tests generates are pairwise distinct, so that building the
\* TestPlan never fails its uniqueness check.
C1_GeneratedNamesDistinct ==
    (op = "plan_tests" /\ done) =>
        /\ ~HasDuplicateNames(result.scenarios)
        /\ result.raised # "ValidationError"

\* C2: no scenario of the plan plan_tests returns (nor of the list it has
\* built when it raises) has a test_name that is in existing_tests.
C2_NoExistingNameInPlan ==
    (op = "plan_tests" /\ done) =>
        \A i \in DOMAIN result.scenarios :
            result.scenarios[i].test_name \notin ToSet(args.existing_tests)

\* A plan was returned, and a name the rules generate for this context was
\* suppressed because it is an existing test's.
C2_Witness ==
    /\ op = "plan_tests" /\ done
    /\ result.raised = "none"
    /\ Len(result.scenarios) > 0
    /\ \E n \in ToSet(args.existing_tests) :
          n \in ToSet(ScenarioNames(plan_tests(args.context, <<>>).scenarios))

EndpointIndex(context, name) ==
    CHOOSE i \in DOMAIN context.endpoints : context.endpoints[i].name = name

\* The position of a scenario's rule in the fixed rule order.
RuleRank(sc) ==
    CASE sc.test_type = "positive" -> 1
      [] sc.test_type = "no_auth" -> 2
      [] sc.test_type = "dependency_failure" -> 3
      [] sc.test_type = "invalid_input" -> 4
      [] sc.test_type = "state_conflict" -> 5
      [] sc.test_type = "forbidden_role" -> 6
      [] sc.test_type = "field_validation" ->
            (IF Val(sc.payload_hint).key = "_omit_field" THEN 8 ELSE 7)
      [] sc.test_type = "boundary_value" -> 9
      [] sc.test_type = "numeric_boundary" -> 10

\* Some p <= q index entries of xs from which names i and j are made.
InListOrder(xs, prefix, ni, nj) ==
    \E p, q \in DOMAIN xs : p <= q /\ ni = prefix \o xs[p] /\ nj = prefix \o xs[q]

\* C3: the scenario list is ordered by endpoint declaration order, then by
\* the fixed rule order; dependency_failure scenarios follow depends_on
\* order, state scenarios follow constraint order, forbidden_role scenarios
\* are in strictly ascending role order.
C3_ScenarioOrder ==
    (op = "plan_tests" /\ done) =>
        \A i, j \in DOMAIN result.scenarios : i < j =>
            LET si == result.scenarios[i]
                sj == result.scenarios[j]
                ei == EndpointIndex(args.context, si.endpoint)
                ej == EndpointIndex(args.context, sj.endpoint)
                ep == args.context.endpoints[ei]
            IN  /\ ei <= ej
                /\ ei = ej => RuleRank(si) <= RuleRank(sj)
                /\ (ei = ej /\ RuleRank(si) = 3 /\ RuleRank(sj) = 3) =>
                      InListOrder(ep.depends_on, ep.name \o "_dependency_fail_",
                                  si.test_name, sj.test_name)
                /\ (ei = ej /\ RuleRank(si) = 5 /\ RuleRank(sj) = 5) =>
                      \E p, q \in DOMAIN ep.state_constraints :
                          /\ p <= q
                          /\ si \in ToSet(constraint_scenarios(ep, ep.state_constraints[p]))
                          /\ sj \in ToSet(constraint_scenarios(ep, ep.state_constraints[q]))
                /\ (ei = ej /\ RuleRank(si) = 6 /\ RuleRank(sj) = 6) =>
                      \E p, q \in DOMAIN SortedRoleTokens :
                          /\ p < q
                          /\ si.test_name = ep.name \o "_forbidden_" \o SortedRoleTokens[p]
                          /\ sj.test_name = ep.name \o "_forbidden_" \o SortedRoleTokens[q]

\* A plan over two endpoints in which one endpoint has two forbidden_role
\* scenarios and another endpoint's scenarios follow.
C3_Witness ==
    /\ op = "plan_tests" /\ done
    /\ result.raised = "none"
    /\ \E i, j, k \in DOMAIN result.scenarios :
          /\ i < j /\ j < k
          /\ result.scenarios[i].test_type = "forbidden_role"
          /\ result.scenarios[j].test_type = "forbidden_role"
          /\ result.scenarios[i].endpoint = result.scenarios[j].endpoint
          /\ result.scenarios[k].endpoint # result.scenarios[j].endpoint

\* C4: plan_tests returns a plan and raises no error, in particular for a
\* context in which an endpoint has a non-empty request_body of FieldSpec
\* objects.
C4_PlanTestsReturns ==
    (/\ op = "plan_tests" /\ done
     /\ \E i \in DOMAIN args.context.endpoints :
           args.context.endpoints[i].request_body # <<>>)
    => result.raised = "none"

(***************************************************************************)
(* Specification of schema inference: one call of infer_schemas            *)
(***************************************************************************)
MaxCorrections == 2

InferEndpointInputs ==
    <<[EndpointArgs("create_order", "POST", "/orders") EXCEPT !.requires_auth = TRUE],
      [EndpointArgs("cancel_order", "DELETE", "/orders/:id/cancel")
           EXCEPT !.requires_auth = TRUE],
      EndpointArgs("get_order", "GET", "/orders/:id"),
      [EndpointArgs("update_widget", "PUT", "/widgets/:id")
           EXCEPT !.requires_auth = TRUE,
                  !.request_body = <<FieldSpec([name |-> "label"])>>],
      [EndpointArgs("patch_user", "PATCH", "/users/:id")
           EXCEPT !.response_body = <<FieldSpec([name |-> "id"])>>]>>

\* Lists of distinct endpoints, built by the constructor.
InferEndpointLists ==
    {[i \in DOMAIN ks |-> Endpoint(InferEndpointInputs[ks[i]]).value] :
        ks \in {f \in UNION {[1..n -> DOMAIN InferEndpointInputs] : n \in 1..MaxEndpoints} :
                   \A i, j \in DOMAIN f : i # j => f[i] # f[j]}}

RequirementsTexts ==
    {"",
     "Orders can only be cancelled if status is Pending. Cannot cancel if Shipped.",
     "Admin users can delete orders. User can create orders.",
     "Admin can cancel orders. Owner can cancel orders."}

\* The orders in which a set of roles can be listed.
OrdersOf(S) == {f \in [1..Cardinality(S) -> S] : ToSet(f) = S}

SettingsOf(provider, key, allow) ==
    [llm_provider |-> provider, openrouter_api_key |-> key, azure_api_key |-> key,
     azure_endpoint |-> "", allow_external_calls |-> allow]

\* Settings under which the collaborator is not called.
UnreachableSettings ==
    {SettingsOf("openrouter", "", TRUE), SettingsOf("azure", "k", TRUE),
     SettingsOf("openrouter", "k", FALSE), SettingsOf("bedrock", "", TRUE)}

\* Settings under which the collaborator is called.
ReachableSettings ==
    {SettingsOf("openrouter", "k", TRUE), SettingsOf("ollama", "", FALSE)}

CorrectionInputs ==
    {[t |-> "dict",
      v |-> [endpoint |-> "post /orders", remove_fields |-> <<"quantity">>]],
     [t |-> "dict",
      v |-> [endpoint |-> "POST /orders",
             add_fields |-> <<[name |-> "coupon", field_type |-> "string"]>>,
             state_constraints |-> <<[allowed_values |-> <<"open">>]>>]],
     [t |-> "dict",
      v |-> [endpoint |-> "POST /orders",
             add_fields |-> <<[name |-> "note"], [field_type |-> "string"]>>]],
     [t |-> "str"]}

ChatOutcomes ==
    {[raised |-> "CircuitOpenError"], [raised |-> "AdapterError"],
     [raised |-> "none", json |-> FALSE],
     [raised |-> "none", json |-> TRUE, value |-> [t |-> "list"]]}
    \cup {[raised |-> "none", json |-> TRUE,
           value |-> [t |-> "dict", v |-> [corrections |-> cs]]] :
             cs \in SeqsUpTo(CorrectionInputs, MaxCorrections)}

\* What the collaborator and the settings can be during one call.
InferEnvs ==
    {[settings |-> st, chat |-> [raised |-> "AdapterError"]] : st \in UnreachableSettings}
    \cup {[settings |-> st, chat |-> ch] : st \in ReachableSettings, ch \in ChatOutcomes}

\* The call is made: the endpoints are the caller's list, which the call
\* changes in place; stage is the stage of infer_schemas that runs next.
InitInfer ==
    /\ op = "infer_schemas"
    /\ \E endpoints \in InferEndpointLists, text \in RequirementsTexts :
       \E set_order \in OrdersOf(ToSet(mentioned_roles(role_matches(text)))) :
           /\ args = [endpoints |-> endpoints, requirements_text |-> text,
                      set_order |-> set_order]
           /\ result = [raised |-> "pending", stage |-> "tier1",
                        endpoints |-> endpoints, log |-> "none"]
    /\ done = FALSE

\* The Tier-1 result of the call at hand.
Tier1OfCall == tier1(args.endpoints, args.requirements_text, args.set_order)

\* infer_schemas up to the point where it waits for the collaborator:
\* stages 1 and 2.
InferTier1 ==
    /\ op = "infer_schemas"
    /\ ~done
    /\ result.stage = "tier1"
    /\ result' = [result EXCEPT !.endpoints = Tier1OfCall, !.stage = "refinement"]
    /\ UNCHANGED <<op, args, done>>

\* infer_schemas from there to its return: stage 3, for what the settings
\* are and what the collaborator does.  The result is the endpoints, what the
\* call raises, and the log line of the refinement.
InferRefinement ==
    /\ op = "infer_schemas"
    /\ ~done
    /\ result.stage = "refinement"
    /\ \E env \in InferEnvs :
           LET r == try_llm_refinement(result.endpoints, args.requirements_text, env)
           IN  result' = [raised |-> r.raised, stage |-> "returned",
                          endpoints |-> r.endpoints, log |-> r.log]
    /\ done' = TRUE
    /\ UNCHANGED <<op, args>>

NextInfer == InferTier1 \/ InferRefinement

SpecInfer == InitInfer /\ [][NextInfer]_vars

\* C9: infer_schemas returns normally whatever the refinement step does:
\* no error of the collaborator, of decoding its response or of applying
\* its corrections is raised out of the call.
C9_InferSchemasNeverRaises ==
    (op = "infer_schemas" /\ done) => result.raised = "none"

\* A call in which the try block raised (the except clause logged it) and
\* infer_schemas returned.
C9_Witness ==
    /\ op = "infer_schemas" /\ done
    /\ args.requirements_text # ""
    /\ result.log = "skipped"
    /\ result.raised = "none"

\* C10: when the refinement fails, every endpoint's request_body and
\* state_constraints are those of the Tier-1 result.
C10_FailedRefinementKeepsTier1 ==
    (op = "infer_schemas" /\ done /\ result.log = "skipped") =>
        \A i \in DOMAIN result.endpoints :
            /\ result.endpoints[i].request_body = Tier1OfCall[i].request_body
            /\ result.endpoints[i].state_constraints = Tier1OfCall[i].state_constraints

MatcherPaths ==
    {"/user-registration/signup", "/auth/token", "/Orders/", "/orders/:id/items",
     "/products", "/users/:id/orders", "/posts/:id/comments", "/widgets",
     "/payments/charge", "/notifications", "/login", "/signin/register",
     "/account/reviews", "/blog/", "/companies/:id", "/:id"}

MatcherEndpoints ==
    {Endpoint(EndpointArgs("ep", m, p)).value : m \in ValidMethods, p \in MatcherPaths}

InitMatcher ==
    /\ op = "_infer_request_fields"
    /\ args \in MatcherEndpoints
    /\ result = Pending
    /\ done = FALSE

InferRequestFields ==
    /\ op = "_infer_request_fields" /\ ~done
    /\ result' = [raised |-> "none", value |-> infer_request_fields(args)]
    /\ done' = TRUE
    /\ UNCHANGED <<op, args>>

NextMatcher == InferRequestFields

SpecMatcher == InitMatcher /\ [][NextMatcher]_vars

FieldNames(fs) == [i \in DOMAIN fs |-> fs[i].name]

\* The rule of index k qualifies for a method and a path: its method filter
\* admits the method and one of its keywords is a substring of the
\* lowercased path without its leading and trailing slashes.
RuleQualifies(k, method, url_path) ==
    /\ method \in ToSet(DOMAIN_SCHEMAS[k].methods)
    /\ \E j \in DOMAIN DOMAIN_SCHEMAS[k].keywords :
          Contains(Strip(Lower(url_path), "/"), DOMAIN_SCHEMAS[k].keywords[j])

\* C12: the matcher returns the template of the lowest-index rule that
\* qualifies, and the generic template (name, description) only when no rule
\* qualifies; POST /user-registration/signup yields the registration
\* template.
C12_FirstQualifyingRuleWins ==
    (op = "_infer_request_fields" /\ done) =>
        LET Q == {k \in DOMAIN DOMAIN_SCHEMAS :
                     RuleQualifies(k, args.method, args.url_path)}
        IN  /\ \A k \in Q :
                  (\A g \in Q : k <= g) =>
                      result.value = [i \in DOMAIN DOMAIN_SCHEMAS[k].fields |->
                                         FieldSpec(DOMAIN_SCHEMAS[k].fields[i])]
            /\ FieldNames(result.value) = <<"name", "description">> <=> Q = {}
            /\ (args.method = "POST" /\ args.url_path = "/user-registration/signup") =>
                  FieldNames(result.value) =
                      <<"email", "password", "username", "full_name">>

\* A call on a path for which two rules qualify, answered by the first.
C12_Witness ==
    /\ op = "_infer_request_fields" /\ done
    /\ args.method = "POST" /\ args.url_path = "/posts/:id/comments"
    /\ RuleQualifies(6, "POST", args.url_path)
    /\ RuleQualifies(7, "POST", args.url_path)
    /\ FieldNames(result.value) = <<"content", "rating">>

(***************************************************************************)
(* Specification of the Tier-1 extractors: runs of                         *)
(* _extract_state_constraints on one list of endpoints, or one call of     *)
(* _extract_roles                                                          *)
(***************************************************************************)
MaxRuns == 2

ExtractEndpointInputs ==
    <<[EndpointArgs("cancel_order", "DELETE", "/orders/:id/cancel")
           EXCEPT !.requires_auth = TRUE],
      EndpointArgs("cancel_subscription", "DELETE", "/subscriptions/:id/cancel"),
      [EndpointArgs("ship_order", "POST", "/orders/:id/ship")
           EXCEPT !.requires_auth = TRUE],
      EndpointArgs("delete_order", "DELETE", "/orders/:id")>>

ExtractEndpointLists ==
    {[i \in DOMAIN ks |-> Endpoint(ExtractEndpointInputs[ks[i]]).value] :
        ks \in {f \in UNION {[1..n -> DOMAIN ExtractEndpointInputs] : n \in 1..MaxEndpoints} :
                   \A i, j \in DOMAIN f : i # j => f[i] # f[j]}}

ConstraintTexts ==
    {"Orders can only be cancelled if status is Pending. Cannot cancel if Shipped.",
     "Orders can only be shipped if status is Paid.",
     "Orders are deleted when the status is 'Draft'.",
     "Subscriptions can only be cancelled if status is Active. Orders can only be cancelled if status is Pending."}

RoleEndpointInputs ==
    <<[EndpointArgs("create_order", "POST", "/orders") EXCEPT !.requires_auth = TRUE],
      [EndpointArgs("cancel_order", "DELETE", "/orders/:id/cancel")
           EXCEPT !.requires_auth = TRUE],
      EndpointArgs("get_order", "GET", "/orders/:id"),
      [EndpointArgs("view_report", "GET", "/reports")
           EXCEPT !.requires_auth = TRUE, !.roles = <<"viewer">>]>>

RoleEndpointLists ==
    {[i \in DOMAIN ks |-> Endpoint(RoleEndpointInputs[ks[i]]).value] :
        ks \in {f \in UNION {[1..n -> DOMAIN RoleEndpointInputs] : n \in 1..MaxEndpoints} :
                   \A i, j \in DOMAIN f : i # j => f[i] # f[j]}}

RoleTexts ==
    {"Admin users can delete orders. User can create orders.",
     "Admin can cancel orders. Owner can cancel orders.",
     "Editor role is required.",
     "Users can create orders.",
     "Requires admin_auth. Manager can view reports."}

InitExtract ==
    /\ \/ /\ op = "_extract_state_constraints"
          /\ \E endpoints \in ExtractEndpointLists :
                /\ args = [endpoints |-> endpoints]
                /\ result = [raised |-> "none", endpoints |-> endpoints, texts |-> <<>>]
       \/ /\ op = "_extract_roles"
          /\ \E endpoints \in RoleEndpointLists, text \in RoleTexts :
             \E set_order \in OrdersOf(ToSet(mentioned_roles(role_matches(text)))) :
                /\ args = [endpoints |-> endpoints, text |-> text, set_order |-> set_order]
                /\ result = [raised |-> "pending", endpoints |-> endpoints]
    /\ done = FALSE

\* One run of _extract_state_constraints on the list, which it changes in
\* place; texts are the texts of the runs made.
ExtractStateConstraints ==
    /\ op = "_extract_state_constraints"
    /\ Len(result.texts) < MaxRuns
    /\ \E text \in ConstraintTexts :
          result' = [raised |-> "none",
                     endpoints |-> extract_state_constraints(result.endpoints, text),
                     texts |-> Append(result.texts, text)]
    /\ done' = TRUE
    /\ UNCHANGED <<op, args>>

ExtractRoles ==
    /\ op = "_extract_roles" /\ ~done
    /\ result' = [raised |-> "none",
                  endpoints |-> extract_roles(args.endpoints, args.text, args.set_order)]
    /\ done' = TRUE
    /\ UNCHANGED <<op, args>>

NextExtract == ExtractStateConstraints \/ ExtractRoles

SpecExtract == InitExtract /\ [][NextExtract]_vars

\* The matches of the two state patterns in a text, each with its action
\* and the constraint it gives.
StateMatches(text) ==
    CHOOSE out \in
        {[i \in DOMAIN allowed |->
             [action |-> Lower(allowed[i].g1),
              constraint |-> match_constraint("allowed", allowed[i])]]
         \o [i \in DOMAIN blocked |->
             [action |-> Lower(blocked[i].g1),
              constraint |-> match_constraint("blocked", blocked[i])]] :
            allowed \in {FindIter("allowed", Tokenize(Lower(text)))},
            blocked \in {FindIter("blocked", Tokenize(Lower(text)))}} : TRUE

\* The matches of all the runs made.
RunMatches ==
    Flatten([k \in DOMAIN result.texts |-> StateMatches(result.texts[k])])

\* The endpoints that match an action, by index.
MatchingEndpoints(endpoints, action) ==
    {i \in DOMAIN endpoints : endpoint_matches_action(action, endpoints[i])}

\* C13: a match gives its constraint to the first endpoint, in the order of
\* the list, that matches its action and to no other, and however many runs
\* are made no state_constraints list holds two equal constraints.
C13_FirstEndpointOnceOnly ==
    (op = "_extract_state_constraints") =>
        \E ms \in {RunMatches} :
            /\ \A k \in DOMAIN ms :
                  LET hits == MatchingEndpoints(args.endpoints, ms[k].action)
                  IN  hits # {} =>
                        ms[k].constraint \in
                            ToSet(result.endpoints[Min(hits)].state_constraints)
            /\ \A i \in DOMAIN result.endpoints :
                  LET cs == result.endpoints[i].state_constraints
                  IN  /\ \A a \in DOMAIN cs :
                            \E k \in DOMAIN ms :
                                /\ ms[k].constraint = cs[a]
                                /\ MatchingEndpoints(args.endpoints, ms[k].action) # {}
                                /\ i = Min(MatchingEndpoints(args.endpoints, ms[k].action))
                      /\ \A a, b \in DOMAIN cs : a # b => cs[a] # cs[b]

\* Two runs on the same text over two endpoints that both match the action:
\* the first has the constraint once, the second does not have it.
C13_Witness ==
    /\ op = "_extract_state_constraints"
    /\ Len(result.texts) = 2 /\ result.texts[1] = result.texts[2]
    /\ Len(result.endpoints) = 2
    /\ result.endpoints[1].name = "cancel_subscription"
    /\ result.endpoints[2].name = "cancel_order"
    /\ result.endpoints[1].state_constraints # <<>>
    /\ result.endpoints[2].state_constraints = <<>>

\* Inflected verbs and the action each is a form of.
BaseAction == [cancelled |-> "cancel", deleted |-> "delete", shipped |-> "ship"]

\* The name or the path of the endpoint contains the word.
NameOrPathContains(ep, word) ==
    Contains(Lower(ep.name), word) \/ Contains(Lower(ep.url_path), word)

\* C14: a state rule whose verb is an inflected form of an action is attached
\* to an endpoint whose name or path contains the action, when there is one.
C14_InflectedVerbAttaches ==
    (op = "_extract_state_constraints") =>
        \E ms \in {RunMatches} :
            \A k \in DOMAIN ms :
                (/\ ms[k].action \in DOMAIN BaseAction
                 /\ \E i \in DOMAIN args.endpoints :
                       NameOrPathContains(args.endpoints[i], BaseAction[ms[k].action]))
                => \E i \in DOMAIN result.endpoints :
                       /\ NameOrPathContains(result.endpoints[i], BaseAction[ms[k].action])
                       /\ ms[k].constraint \in ToSet(result.endpoints[i].state_constraints)

\* The roles one of whose actions matches the endpoint.
MatchedRoles(ms, ep) ==
    {r \in ToSet(mentioned_roles(ms)) :
        \E j \in DOMAIN mentioned_actions(ms, r) :
            role_action_matches(mentioned_actions(ms, r)[j], ep)}

\* C15: of the endpoints that had no roles, one that does not require
\* authentication has none after role extraction, and one that requires it
\* has, when the text mentions a recognized role, a non-empty list of
\* recognized roles without repetition: the roles whose action matched it,
\* or, when none did, all the roles the text mentions.
C15_RolesAssigned ==
    (op = "_extract_roles" /\ done) =>
        \E ms \in {role_matches(args.text)} :
            \A i \in DOMAIN args.endpoints :
                LET before == args.endpoints[i]
                    after == result.endpoints[i]
                    mentioned == ToSet(mentioned_roles(ms))
                    matched == MatchedRoles(ms, before)
                IN  before.roles = <<>> =>
                      /\ ~before.requires_auth => after.roles = <<>>
                      /\ (before.requires_auth /\ mentioned # {}) =>
                            /\ after.roles # <<>>
                            /\ ToSet(after.roles) \subseteq RoleVocabulary
                            /\ Cardinality(ToSet(after.roles)) = Len(after.roles)
                            /\ ToSet(after.roles) =
                                  IF matched # {} THEN matched ELSE mentioned

\* A call in which one endpoint gets the role whose action matched it and
\* the other, which no action matched, gets all the roles mentioned.
C15_Witness ==
    /\ op = "_extract_roles" /\ done
    /\ args.text = "Admin users can delete orders. User can create orders."
    /\ \E i \in DOMAIN result.endpoints :
          /\ result.endpoints[i].name = "create_order"
          /\ result.endpoints[i].roles = <<"user">>
    /\ \E i \in DOMAIN result.endpoints :
          /\ result.endpoints[i].name = "cancel_order"
          /\ result.endpoints[i].roles = <<"admin", "user">>

(***************************************************************************)
(* validator/coverage.py : validate_coverage                               *)
(***************************************************************************)
MaxPlanned == 3        \* names in planned_tests
MaxCovered == 2        \* names in existing_tests of validate_coverage

\* list(S): the elements of the set in the interpreter's iteration order,
\* which set_order, a listing of all names, stands for.
list(S, set_order) == SelectSeq(set_order, LAMBDA x : x \in S)

\* planned_tests.count(test)
count(xs, x) == Cardinality({i \in DOMAIN xs : xs[i] = x})

\* The duplicates of validate_coverage, were the comprehension not made
\* unique.
duplicates_Repeated(planned_tests, set_order) ==
    SelectSeq(planned_tests, LAMBDA test : count(planned_tests, test) > 1)

\* The duplicates of validate_coverage.
duplicates(planned_tests, set_order) ==
    list(ToSet(SelectSeq(planned_tests, LAMBDA test : count(planned_tests, test) > 1)),
         set_order)

\* A quotient of two lengths, kept as the fraction; 0.0 is 0/1.
Ratio(num, den) == [num |-> num, den |-> den]

\* validate_coverage, were new_tests taken from the planned list itself.
validate_coverage_FromList(planned_tests, existing_tests, set_order) ==
    LET planned_set == ToSet(planned_tests)
        existing_set == ToSet(existing_tests)
        already_covered == list(planned_set \cap existing_set, set_order)
        new_tests == SelectSeq(planned_tests, LAMBDA x : x \notin existing_set)
        total_planned == Cardinality(planned_set)
    IN  [raised |-> "none",
         total_planned |-> total_planned,
         already_covered |-> already_covered,
         new_tests |-> new_tests,
         duplicates |-> duplicates(planned_tests, set_order),
         coverage_improvement |->
             IF total_planned > 0 THEN Ratio(Len(new_tests), total_planned)
             ELSE Ratio(0, 1),
         summary |-> [new |-> Len(new_tests),
                      existing |-> Cardinality(existing_set),
                      total_after_generation |->
                          Cardinality(existing_set) + Len(new_tests)]]

validate_coverage(planned_tests, existing_tests, set_order) ==
    LET planned_set == ToSet(planned_tests)
        existing_set == ToSet(existing_tests)
        already_covered == list(planned_set \cap existing_set, set_order)
        new_tests == list(planned_set \ existing_set, set_order)
        total_planned == Cardinality(planned_set)
    IN  [raised |-> "none",
         total_planned |-> total_planned,
         already_covered |-> already_covered,
         new_tests |-> new_tests,
         duplicates |-> duplicates(planned_tests, set_order),
         coverage_improvement |->
             IF total_planned > 0 THEN Ratio(Len(new_tests), total_planned)
             ELSE Ratio(0, 1),
         summary |-> [new |-> Len(new_tests),
                      existing |-> Cardinality(existing_set),
                      total_after_generation |->
                          Cardinality(existing_set) + Len(new_tests)]]

(***************************************************************************)
(* Specification of the coverage validator: one call of validate_coverage  *)
(***************************************************************************)
CoverageNames == {"a_positive", "b_positive", "a_no_auth"}

InitCoverage ==
    /\ op = "validate_coverage"
    /\ \E planned_tests \in SeqsUpTo(CoverageNames, MaxPlanned),
          existing_tests \in SeqsUpTo(CoverageNames, MaxCovered),
          set_order \in OrdersOf(CoverageNames) :
          args = [planned_tests |-> planned_tests, existing_tests |-> existing_tests,
                  set_order |-> set_order]
    /\ result = Pending
    /\ done = FALSE

ValidateCoverage ==
    /\ op = "validate_coverage" /\ ~done
    /\ result' = validate_coverage(args.planned_tests, args.existing_tests,
                                   args.set_order)
    /\ done' = TRUE
    /\ UNCHANGED <<op, args>>

NextCoverage == ValidateCoverage

SpecCoverage == InitCoverage /\ [][NextCoverage]_vars

\* C16: already_covered and new_tests are disjoint, together they are the
\* set of the planned names, already_covered is within the existing names
\* and new_tests outside them, and their lengths add up to the number of
\* distinct planned names, which is total_planned.
C16_CoverageArithmetic ==
    (op = "validate_coverage" /\ done) =>
        LET planned_set == ToSet(args.planned_tests)
            covered == ToSet(result.already_covered)
            new == ToSet(result.new_tests)
        IN  /\ covered \cap new = {}
            /\ covered \cup new = planned_set
            /\ covered \subseteq ToSet(args.existing_tests)
            /\ new \cap ToSet(args.existing_tests) = {}
            /\ Len(result.new_tests) + Len(result.already_covered)
                  = Cardinality(planned_set)
            /\ result.total_planned = Cardinality(planned_set)

\* A call whose planned list repeats a name and holds both a covered and a
\* new name.
C16_Witness ==
    /\ op = "validate_coverage" /\ done
    /\ Len(args.planned_tests) > Cardinality(ToSet(args.planned_tests))
    /\ result.already_covered # <<>>
    /\ result.new_tests # <<>>

\* C17: duplicates lists, once each, the names that occur more than once in
\* planned_tests, whatever existing_tests is, and coverage_improvement is 0.0
\* when planned_tests is empty.
C17_DuplicatesAndEmptyPlan ==
    (op = "validate_coverage" /\ done) =>
        LET repeated == {n \in CoverageNames :
                            \E i, j \in DOMAIN args.planned_tests :
                                /\ i # j
                                /\ args.planned_tests[i] = n
                                /\ args.planned_tests[j] = n}
        IN  /\ ToSet(result.duplicates) = repeated
            /\ Len(result.duplicates) = Cardinality(repeated)
            /\ args.planned_tests = <<>> =>
                  /\ result.raised = "none"
                  /\ result.coverage_improvement = Ratio(0, 1)

\* validate_coverage(["a_positive", "b_positive", "a_positive"],
\* ["a_positive"]): one duplicate, one new test, half of the plan is new.
C17_Witness ==
    /\ op = "validate_coverage" /\ done
    /\ args.planned_tests = <<"a_positive", "b_positive", "a_positive">>
    /\ args.existing_tests = <<"a_positive">>
    /\ result.duplicates = <<"a_positive">>
    /\ result.new_tests = <<"b_positive">>
    /\ result.already_covered = <<"a_positive">>
    /\ 2 * result.coverage_improvement.num = result.coverage_improvement.den

(***************************************************************************)
(* Specification of the numeric boundary rule: the request body of one     *)
(* endpoint is constructed from keyword arguments, then plan_tests is      *)
(* called on the context of that endpoint                                  *)
(***************************************************************************)
MaxNumeric == 2        \* fields of the request body constructed

\* Keyword arguments given to FieldSpec(...) for a numeric field.
NumericFieldKw ==
    {[name |-> n, field_type |-> "integer"] : n \in {"quantity", "price"}}
    \cup {[name |-> n, field_type |-> "integer", minimum |-> Some(m)] :
             n \in {"quantity", "price"}, m \in {0, 1, 5}}
    \cup {[name |-> n, field_type |-> "integer", maximum |-> Some(10)] :
             n \in {"quantity", "price"}}
    \cup {[name |-> n, field_type |-> "integer", minimum |-> Some(m),
            maximum |-> Some(10)] : n \in {"quantity", "price"}, m \in {0, 1, 5}}

InitNumeric ==
    /\ op = "plan_tests"
    /\ \E n \in 0..MaxNumeric : \E kws \in [1..n -> NumericFieldKw] :
          args = [request_body_kw |-> kws, existing_tests |-> <<>>]
    /\ result = [raised |-> "pending", stage |-> "construct"]
    /\ done = FALSE

\* The caller constructs the fields, the endpoint and the context.
ConstructNumericContext ==
    /\ op = "plan_tests" /\ ~done
    /\ result.stage = "construct"
    /\ result' =
          [raised |-> "pending", stage |-> "plan",
           context |->
               SystemContext(
                   [endpoints |->
                        <<Endpoint([EndpointArgs("create_item", "POST", "/items")
                                       EXCEPT !.request_body =
                                           [i \in DOMAIN args.request_body_kw |->
                                               FieldSpec(args.request_body_kw[i])]]).value>>,
                    auth_rules |-> <<>>,
                    dependencies |-> <<>>]).value]
    /\ UNCHANGED <<op, args, done>>

\* plan_tests is called on the context.
PlanNumeric ==
    /\ op = "plan_tests" /\ ~done
    /\ result.stage = "plan"
    /\ LET r == plan_tests(result.context, args.existing_tests)
       IN  result' = [raised |-> r.raised, stage |-> "returned",
                      context |-> result.context, scenarios |-> r.scenarios]
    /\ done' = TRUE
    /\ UNCHANGED <<op, args>>

NextNumeric == ConstructNumericContext \/ PlanNumeric

SpecNumeric == InitNumeric /\ [][NextNumeric]_vars

\* The keyword arguments, among those of the first two fields given a
\* minimum or a maximum, that give a minimum.
FieldsWithMinimum ==
    LET numeric == SelectSeq(args.request_body_kw,
                             LAMBDA kw : "minimum" \in DOMAIN kw \/ "maximum" \in DOMAIN kw)
    IN  {kw \in ToSet(Take(numeric, 2)) : "minimum" \in DOMAIN kw}

\* C18: for a field given the minimum m, plan_tests emits the scenario
\* {endpoint}_negative_{field} (numeric_boundary, 422, hint m - 1) and,
\* exactly when m > 0, the scenario {endpoint}_zero_{field} (hint 0).
C18_NumericBoundaryScenarios ==
    (op = "plan_tests" /\ done) =>
        \A kw \in FieldsWithMinimum :
            /\ result.raised = "none"
            /\ \E i \in DOMAIN result.scenarios :
                  result.scenarios[i] =
                      TestScenario("create_item_negative_" \o kw.name, "create_item",
                                   "numeric_boundary", 422,
                                   Some([key |-> kw.name, value |-> Val(kw.minimum) - 1]))
            /\ Val(kw.minimum) > 0 <=>
                  \E i \in DOMAIN result.scenarios :
                      result.scenarios[i] =
                          TestScenario("create_item_zero_" \o kw.name, "create_item",
                                       "numeric_boundary", 422,
                                       Some([key |-> kw.name, value |-> 0]))

\* The scenarios of the list that are the endpoint's, in order.
ScenariosOf(scs, name) == SelectSeq(scs, LAMBDA sc : sc.endpoint = name)

HasPathParameter(url_path) ==
    \E seg \in ToSet(Split(Strip(url_path, "/"), "/")) :
        StartsWith(seg, ":") \/ StartsWith(seg, "{")

\* C20: the plan holds {endpoint}_invalid_id (invalid_input, 404) for an
\* endpoint if and only if the endpoint's path has a parameter placeholder
\* and the name is not an existing test's.
C20_InvalidIdForPathParameter ==
    (op = "plan_tests" /\ done /\ result.raised = "none") =>
        \A i \in DOMAIN args.context.endpoints :
            LET ep == args.context.endpoints[i]
            IN  (\E k \in DOMAIN result.scenarios :
                    result.scenarios[k] =
                        TestScenario(ep.name \o "_invalid_id", ep.name,
                                     "invalid_input", 404, None))
                <=> (/\ HasPathParameter(ep.url_path)
                     /\ (ep.name \o "_invalid_id") \notin ToSet(args.existing_tests))

TwoSmallest(S) ==
    {r \in S : Cardinality({q \in S : \E a, b \in DOMAIN SortedRoleTokens :
                                a < b /\ SortedRoleTokens[a] = q
                                      /\ SortedRoleTokens[b] = r}) < 2}

\* C22: forbidden_role scenarios exist only for an endpoint that requires
\* authentication and has roles; there are at most two of them, each with
\* status 403 and naming one of the two smallest, in sorted order, of the
\* roles of all endpoints less the endpoint's own, in that order; none names
\* a role of the endpoint.
C22_ForbiddenRoleScenarios ==
    (op = "plan_tests" /\ done) =>
        \A i \in DOMAIN args.context.endpoints :
            LET ep == args.context.endpoints[i]
                fs == SelectSeq(ScenariosOf(result.scenarios, ep.name),
                                LAMBDA sc : sc.test_type = "forbidden_role")
                all_roles == UNION {ToSet(args.context.endpoints[j].roles) :
                                       j \in DOMAIN args.context.endpoints}
                candidates == TwoSmallest(all_roles \ ToSet(ep.roles))
            IN  /\ fs # <<>> => (ep.requires_auth /\ ep.roles # <<>>)
                /\ Len(fs) <= 2
                /\ \A n \in DOMAIN fs :
                      /\ fs[n].expected_status = 403
                      /\ \E r \in candidates :
                            fs[n].test_name = ep.name \o "_forbidden_" \o r
                      /\ \A r \in ToSet(ep.roles) :
                            fs[n].test_name # ep.name \o "_forbidden_" \o r
                /\ (/\ result.raised = "none" /\ args.existing_tests = <<>>
                    /\ ep.requires_auth /\ ep.roles # <<>>)
                   => ScenarioNames(fs) =
                         [n \in DOMAIN sorted(candidates) |->
                             ep.name \o "_forbidden_" \o sorted(candidates)[n]]

\* A returned plan for an endpoint with the role user in a context whose
\* other roles are admin, editor and viewer: the two scenarios name admin
\* and editor.
C22_Witness ==
    /\ op = "plan_tests" /\ done /\ result.raised = "none"
    /\ \E i \in DOMAIN args.context.endpoints :
          /\ args.context.endpoints[i].roles = <<"user">>
          /\ args.context.endpoints[i].requires_auth
          /\ ScenarioNames(SelectSeq(ScenariosOf(result.scenarios,
                                                 args.context.endpoints[i].name),
                                     LAMBDA sc : sc.test_type = "forbidden_role"))
               = <<args.context.endpoints[i].name \o "_forbidden_admin",
                   args.context.endpoints[i].name \o "_forbidden_editor">>
    /\ \E j \in DOMAIN args.context.endpoints :
          "viewer" \in ToSet(args.context.endpoints[j].roles)

\* C27: the state that the payload hint of {endpoint}_state_conflict_{field}
\* sets for a constraint with allowed values (the first blocked value, or
\* "completed" when none is blocked) is not one of the constraint's allowed
\* values.
C27_ConflictStateIsDisallowed ==
    (op = "plan_tests" /\ done) =>
        \A i \in DOMAIN args.context.endpoints :
            LET ep == args.context.endpoints[i]
                cs == ep.state_constraints
            IN  \A k \in DOMAIN cs : \A n \in DOMAIN result.scenarios :
                    (/\ cs[k].allowed_values # <<>>
                     /\ result.scenarios[n] =
                           TestScenario(ep.name \o "_state_conflict_" \o cs[k].field,
                                        ep.name, "state_conflict", cs[k].error_code,
                                        Some([key |-> cs[k].field,
                                              value |-> IF cs[k].blocked_values # <<>>
                                                        THEN cs[k].blocked_values[1]
                                                        ELSE "completed"])))
                    => Val(result.scenarios[n].payload_hint).value
                          \notin ToSet(cs[k].allowed_values)

\* C28: the string in the payload hint of a scenario {endpoint}_short_{field}
\* is shorter than the field's min_length.
C28_ShortValueBelowMinLength ==
    (op = "plan_tests" /\ done) =>
        \A i \in DOMAIN args.context.endpoints :
            LET ep == args.context.endpoints[i]
            IN  \A f \in DOMAIN ep.request_body : \A n \in DOMAIN result.scenarios :
                    (/\ ep.request_body[f].min_length # None
                     /\ Val(ep.request_body[f].min_length) > 0
                     /\ result.scenarios[n].test_type = "boundary_value"
                     /\ result.scenarios[n].test_name =
                           ep.name \o "_short_" \o ep.request_body[f].name)
                    => Len(Val(result.scenarios[n].payload_hint).value)
                          < Val(ep.request_body[f].min_length)

\* ---------------------------------------------------------------------
\* adapters/base.py: CircuitBreaker, RetryConfig and ModelAdapter.chat.
\* Time is counted in whole seconds; time.time() is the field now.
\* ---------------------------------------------------------------------

MaxThreshold == 3      \* failure_threshold of a CircuitBreaker constructed
MaxFailures == 4       \* record_failure calls made on one CircuitBreaker
MaxTicks == 2          \* advances of the clock
MaxRetries == 4        \* max_retries of a RetryConfig
MaxChats == 2          \* chat calls made on one adapter

FailureThresholdDefault == 5
ResetTimeoutDefault == 60
BaseDelayDefault == 1
MaxDelayDefault == 30
BackoffFactorDefault == 2

CircuitBreaker(failure_threshold, reset_timeout) ==
    [failure_threshold |-> failure_threshold, reset_timeout |-> reset_timeout,
     _failure_count |-> 0, _last_failure_time |-> 0, _is_open |-> FALSE]

\* The breaker after is_open is read at the time now; the value read is its
\* field _is_open.
is_open(cb, now) ==
    IF cb._is_open /\ (now - cb._last_failure_time) > cb.reset_timeout
    THEN [cb EXCEPT !._is_open = FALSE, !._failure_count = 0]
    ELSE cb

record_success(cb) == [cb EXCEPT !._failure_count = 0, !._is_open = FALSE]

\* record_failure, were the breaker to trip only above the threshold.
record_failure_Above(cb, now) ==
    LET counted == [cb EXCEPT !._failure_count = @ + 1, !._last_failure_time = now]
    IN  IF counted._failure_count > counted.failure_threshold
        THEN [counted EXCEPT !._is_open = TRUE]
        ELSE counted

record_failure(cb, now) ==
    LET counted == [cb EXCEPT !._failure_count = @ + 1, !._last_failure_time = now]
    IN  IF counted._failure_count >= counted.failure_threshold
        THEN [counted EXCEPT !._is_open = TRUE]
        ELSE counted

RetryConfig(max_retries, base_delay, max_delay, backoff_factor) ==
    [max_retries |-> max_retries, base_delay |-> base_delay,
     max_delay |-> max_delay, backoff_factor |-> backoff_factor]

RECURSIVE Power(_, _)
Power(b, n) == IF n <= 0 THEN 1 ELSE b * Power(b, n - 1)

\* The whole numbers of seconds that
\* min(base_delay * backoff_factor ** attempt, max_delay) * (0.75 + random() * 0.5)
\* can be, random() being in [0, 1).
delays(cfg, attempt) ==
    LET grown == cfg.base_delay * Power(cfg.backoff_factor, attempt)
        delay == IF grown < cfg.max_delay THEN grown ELSE cfg.max_delay
    IN  {n \in 0..(2 * delay) : 3 * delay <= 4 * n /\ 4 * n < 5 * delay}

\* --- a CircuitBreaker on its own ---------------------------------------
\* args is the breaker constructed; result holds the breaker, the clock, the
\* last operation with the breaker and the time before it, the failures
\* recorded since the last success (or construction), and whether a cooldown
\* has reset the breaker since then.

BreakerState(cb, now, last_op, before, at, since, cooled, failures, ticks) ==
    [cb |-> cb, now |-> now, last_op |-> last_op, before |-> before, at |-> at,
     since |-> since, cooled |-> cooled, failures |-> failures, ticks |-> ticks]

ResetTimeouts == {2, ResetTimeoutDefault}

InitBreaker ==
    /\ op = "CircuitBreaker"
    /\ \E failure_threshold \in 1..MaxThreshold, reset_timeout \in ResetTimeouts :
          /\ args = CircuitBreaker(failure_threshold, reset_timeout)
          /\ result = BreakerState(args, 0, "__init__", args, 0, 0, FALSE, 0, 0)
    /\ done = FALSE

RecordFailure ==
    /\ op = "CircuitBreaker"
    /\ result.failures < MaxFailures
    /\ result' = BreakerState(record_failure(result.cb, result.now), result.now,
                              "record_failure", result.cb, result.now,
                              result.since + 1, result.cooled,
                              result.failures + 1, result.ticks)
    /\ done' = TRUE
    /\ UNCHANGED <<op, args>>

RecordSuccess ==
    /\ op = "CircuitBreaker"
    /\ result' = BreakerState(record_success(result.cb), result.now,
                              "record_success", result.cb, result.now,
                              0, FALSE, result.failures, result.ticks)
    /\ done' = TRUE
    /\ UNCHANGED <<op, args>>

ReadIsOpen ==
    /\ op = "CircuitBreaker"
    /\ result' = BreakerState(is_open(result.cb, result.now), result.now,
                              "is_open", result.cb, result.now, result.since,
                              result.cooled \/ is_open(result.cb, result.now) # result.cb,
                              result.failures, result.ticks)
    /\ done' = TRUE
    /\ UNCHANGED <<op, args>>

\* The clock advances by a second or by the breaker's reset_timeout.
TickBreaker ==
    /\ op = "CircuitBreaker"
    /\ result.ticks < MaxTicks
    /\ \E d \in {1, result.cb.reset_timeout} :
          result' = [result EXCEPT !.now = @ + d, !.ticks = @ + 1,
                                   !.last_op = "tick", !.before = result.cb,
                                   !.at = result.now]
    /\ UNCHANGED <<op, args, done>>

NextBreaker == RecordFailure \/ RecordSuccess \/ ReadIsOpen \/ TickBreaker

SpecBreaker == InitBreaker /\ [][NextBreaker]_vars

\* --- ModelAdapter.chat ---------------------------------------------------
\* args is the adapter constructed (its retry_config); result holds its
\* circuit_breaker, the clock, the position of the running chat call (idle
\* when none runs), the attempt, what the last chat call did (outcome, the
\* attempt whose result it returned) and, for every invocation of _do_chat
\* of the last chat call, whether it raised and whether the breaker was open
\* and within its cooldown when it was made.

RetryConfigs ==
    {RetryConfig(max_retries, BaseDelayDefault, max_delay, BackoffFactorDefault) :
        max_retries \in 0..MaxRetries, max_delay \in {3, MaxDelayDefault}}

InitAdapter ==
    /\ op = "chat"
    /\ \E retry_config \in RetryConfigs :
          args = [retry_config |-> retry_config]
    /\ result = [circuit_breaker |-> CircuitBreaker(FailureThresholdDefault,
                                                    ResetTimeoutDefault),
                 now |-> 0, pc |-> "idle", attempt |-> 0, outcome |-> "none",
                 value |-> None, open_at_entry |-> FALSE, invocations |-> <<>>,
                 chats |-> 0, ticks |-> 0]
    /\ done = FALSE

\* chat up to the first attempt: the breaker is read, and the call raises
\* CircuitOpenError or enters the loop.
ChatEnter ==
    /\ op = "chat"
    /\ result.pc = "idle"
    /\ result.chats < MaxChats
    /\ LET cb == is_open(result.circuit_breaker, result.now)
       IN  result' = [result EXCEPT
                         !.circuit_breaker = cb,
                         !.open_at_entry = cb._is_open,
                         !.invocations = <<>>,
                         !.attempt = 0,
                         !.value = None,
                         !.chats = @ + 1,
                         !.pc = IF cb._is_open THEN "idle"
                                ELSE IF args.retry_config.max_retries + 1 > 0
                                     THEN "attempt" ELSE "idle",
                         !.outcome = IF cb._is_open THEN "CircuitOpenError"
                                     ELSE IF args.retry_config.max_retries + 1 > 0
                                          THEN "none" ELSE "AdapterError"]
    /\ done' = (result'.pc = "idle")
    /\ UNCHANGED <<op, args>>

Invocation(raised) ==
    [raised |-> raised,
     open |-> /\ result.circuit_breaker._is_open
              /\ (result.now - result.circuit_breaker._last_failure_time)
                    <= result.circuit_breaker.reset_timeout]

\* _do_chat returns: record_success, and chat returns its result.
DoChatReturns ==
    /\ op = "chat"
    /\ result.pc = "attempt"
    /\ result' = [result EXCEPT
                     !.circuit_breaker = record_success(@),
                     !.invocations = Append(@, Invocation(FALSE)),
                     !.value = Some(result.attempt),
                     !.outcome = "returned",
                     !.pc = "idle"]
    /\ done' = TRUE
    /\ UNCHANGED <<op, args>>

\* DoChatRaises, were the loop to make one attempt more.
DoChatRaises_OneMore ==
    /\ op = "chat"
    /\ result.pc = "attempt"
    /\ result' = [result EXCEPT
                     !.circuit_breaker = record_failure(@, result.now),
                     !.invocations = Append(@, Invocation(TRUE)),
                     !.outcome = IF result.attempt <= args.retry_config.max_retries
                                 THEN "none" ELSE "AdapterError",
                     !.pc = IF result.attempt <= args.retry_config.max_retries
                            THEN "sleep" ELSE "idle"]
    /\ done' = (result'.pc = "idle")
    /\ UNCHANGED <<op, args>>

\* _do_chat raises an Exception: record_failure, and chat sleeps before the
\* next attempt or, after the last one, raises AdapterError.
DoChatRaises ==
    /\ op = "chat"
    /\ result.pc = "attempt"
    /\ result' = [result EXCEPT
                     !.circuit_breaker = record_failure(@, result.now),
                     !.invocations = Append(@, Invocation(TRUE)),
                     !.outcome = IF result.attempt < args.retry_config.max_retries
                                 THEN "none" ELSE "AdapterError",
                     !.pc = IF result.attempt < args.retry_config.max_retries
                            THEN "sleep" ELSE "idle"]
    /\ done' = (result'.pc = "idle")
    /\ UNCHANGED <<op, args>>

\* time.sleep(delay) ends and the loop goes to the next attempt.
Sleep ==
    /\ op = "chat"
    /\ result.pc = "sleep"
    /\ \E delay \in delays(args.retry_config, result.attempt) :
          result' = [result EXCEPT !.now = @ + delay, !.attempt = @ + 1,
                                   !.pc = "attempt"]
    /\ UNCHANGED <<op, args, done>>

\* Between chat calls the clock advances by a second or by the reset_timeout.
TickAdapter ==
    /\ op = "chat"
    /\ result.pc = "idle"
    /\ result.ticks < MaxTicks
    /\ \E d \in {1, result.circuit_breaker.reset_timeout} :
          result' = [result EXCEPT !.now = @ + d, !.ticks = @ + 1]
    /\ UNCHANGED <<op, args, done>>

NextAdapter == ChatEnter \/ DoChatReturns \/ DoChatRaises \/ Sleep \/ TickAdapter

SpecAdapter == InitAdapter /\ [][NextAdapter]_vars

\* _do_chat returns or raises, and time.sleep returns.
SpecAdapterLive ==
    SpecAdapter /\ WF_vars(DoChatReturns \/ DoChatRaises) /\ WF_vars(Sleep)

\* C25: while no cooldown has reset the breaker since the last success, the
\* breaker is open exactly when at least failure_threshold failures have been
\* recorded since that success (or since construction); record_success leaves
\* it closed with a count of zero; reading is_open when more than
\* reset_timeout has passed since the last failure leaves an open breaker
\* closed with a count of zero; an open breaker has a count of at least
\* failure_threshold.
C25_BreakerOpenAtThreshold ==
    op = "CircuitBreaker" =>
        /\ ~result.cooled =>
              (result.cb._is_open <=> result.since >= result.cb.failure_threshold)
        /\ result.last_op = "record_success" =>
              (~result.cb._is_open /\ result.cb._failure_count = 0)
        /\ (/\ result.last_op = "is_open" /\ result.before._is_open
            /\ result.at - result.before._last_failure_time > result.cb.reset_timeout)
           => (~result.cb._is_open /\ result.cb._failure_count = 0)
        /\ result.cb._is_open =>
              result.cb._failure_count >= result.cb.failure_threshold

\* A breaker that tripped at its threshold of two failures and was closed by
\* a read of is_open after its cooldown.
C25_Witness ==
    /\ op = "CircuitBreaker"
    /\ result.cb.failure_threshold = 2
    /\ result.last_op = "is_open"
    /\ result.before._is_open /\ result.before._failure_count = 2
    /\ ~result.cb._is_open /\ result.cb._failure_count = 0
    /\ result.since = 2

\* What C23 says of every state of a chat call.
ChatAttempts ==
    (op = "chat" /\ result.chats > 0) =>
        LET inv == result.invocations
            n == args.retry_config.max_retries + 1
        IN  /\ result.open_at_entry =>
                  (result.outcome = "CircuitOpenError" /\ inv = <<>> /\ result.pc = "idle")
            /\ result.outcome = "CircuitOpenError" => result.open_at_entry
            /\ Len(inv) <= n
            /\ \A k \in DOMAIN inv : k < Len(inv) => inv[k].raised
            /\ result.outcome = "returned" =>
                  (/\ result.pc = "idle" /\ inv # <<>> /\ ~inv[Len(inv)].raised
                   /\ result.value = Some(Len(inv) - 1))
            /\ (result.pc = "idle" /\ ~result.open_at_entry) =>
                  /\ result.outcome \in {"returned", "AdapterError"}
                  /\ result.outcome = "AdapterError"
                        <=> (Len(inv) = n /\ \A k \in DOMAIN inv : inv[k].raised)

\* C23: a chat call that finds the breaker open raises CircuitOpenError with
\* no invocation of _do_chat; any other makes at most max_retries + 1
\* invocations, returns the result of the first that succeeds and makes none
\* after it, and raises AdapterError exactly when max_retries + 1 invocations
\* have all failed; every chat call ends.
C23_ChatAttemptsAndTermination ==
    /\ []ChatAttempts
    /\ (op = "chat" /\ result.pc # "idle") ~> (result.pc = "idle")

\* A chat call that returned the result of its third attempt.
C23_Witness ==
    /\ op = "chat" /\ result.pc = "idle" /\ result.outcome = "returned"
    /\ result.value = Some(2)
    /\ Len(result.invocations) = 3

\* C30: no invocation of _do_chat is made while the breaker is open and
\* within its cooldown.
C30_NoAttemptWhileOpen ==
    op = "chat" => \A k \in DOMAIN result.invocations : ~result.invocations[k].open

\* ---------------------------------------------------------------------
\* adapters/registry.py and config.py: get_adapter, clear_adapter_cache and
\* update_settings.
\* ---------------------------------------------------------------------

Settings(llm_provider, llm_max_retries, allow_external_calls) ==
    [llm_provider |-> llm_provider, llm_max_retries |-> llm_max_retries,
     allow_external_calls |-> allow_external_calls]

\* provider or settings.llm_provider
ProviderOrDefault(provider, settings) ==
    IF provider = None \/ provider = Some("") THEN settings.llm_provider
    ELSE Val(provider)

\* get_adapter without the privacy enforcement.
get_adapter_NoPrivacy(settings, cache, provider) ==
    LET name == ProviderOrDefault(provider, settings)
    IN  IF name \notin ADAPTER_CLASSES
        THEN [raised |-> "ProviderUnavailableError", adapter |-> None, cache |-> cache]
        ELSE LET filled ==
                     IF name \notin DOMAIN cache
                     THEN [p \in DOMAIN cache \cup {name} |->
                              IF p = name
                              THEN [name |-> name,
                                    is_local |-> is_local(name),
                                    max_retries |-> settings.llm_max_retries]
                              ELSE cache[p]]
                     ELSE cache
             IN  [raised |-> "none", adapter |-> Some(filled[name]), cache |-> filled]

\* get_adapter(provider) with the settings and the cache it finds: what it
\* raises or returns, and the cache it leaves.
get_adapter(settings, cache, provider) ==
    LET name == ProviderOrDefault(provider, settings)
    IN  IF name \notin ADAPTER_CLASSES
        THEN [raised |-> "ProviderUnavailableError", adapter |-> None, cache |-> cache]
        ELSE IF ~settings.allow_external_calls /\ ~is_local(name)
        THEN [raised |-> "PrivacyViolationError", adapter |-> None, cache |-> cache]
        ELSE LET filled ==
                     IF name \notin DOMAIN cache
                     THEN [p \in DOMAIN cache \cup {name} |->
                              IF p = name
                              THEN [name |-> name,
                                    is_local |-> is_local(name),
                                    max_retries |-> settings.llm_max_retries]
                              ELSE cache[p]]
                     ELSE cache
             IN  [raised |-> "none", adapter |-> Some(filled[name]), cache |-> filled]

\* updated_data.update(kwargs); Settings(**updated_data)
update_settings(settings, kwargs) ==
    [k \in DOMAIN settings |-> IF k \in DOMAIN kwargs THEN kwargs[k] ELSE settings[k]]

EmptyCache == [p \in {} |-> None]

ProviderNames == {"openrouter", "ollama", "tgi", "azure", "bedrock"}

ProviderArgs == {None, Some("")} \cup {Some(p) : p \in ProviderNames}

SettingsInputs ==
    {Settings(p, 3, a) : p \in {"openrouter", "ollama", "bedrock"}, a \in BOOLEAN}

KwargsInputs ==
    {[allow_external_calls |-> a] : a \in BOOLEAN}
    \cup {[llm_provider |-> p] : p \in {"ollama", "azure", "bedrock"}}
    \cup {[llm_provider |-> "vllm", allow_external_calls |-> FALSE],
          [llm_max_retries |-> 0]}

\* args is the Settings loaded at start; result holds the settings singleton,
\* the adapter cache, the last call with what it raised or returned, and
\* the providers whose adapter get_adapter has returned so far.
InitRegistry ==
    /\ op = "get_adapter"
    /\ \E settings \in SettingsInputs :
          /\ args = [settings |-> settings]
          /\ result = [settings |-> settings, cache |-> EmptyCache,
                       call |-> "none", provider |-> None, raised |-> "none",
                       adapter |-> None, served |-> {}]
    /\ done = FALSE

GetAdapter ==
    /\ op = "get_adapter"
    /\ \E provider \in ProviderArgs :
       \E got \in {get_adapter(result.settings, result.cache, provider)} :
          result' = [result EXCEPT
                        !.cache = got.cache, !.call = "get_adapter",
                        !.provider = provider, !.raised = got.raised,
                        !.adapter = got.adapter,
                        !.served = IF got.adapter = None THEN @
                                   ELSE @ \cup {Val(got.adapter).name}]
    /\ done' = TRUE
    /\ UNCHANGED <<op, args>>

UpdateSettings ==
    /\ op = "get_adapter"
    /\ \E kwargs \in KwargsInputs :
          result' = [result EXCEPT
                        !.settings = update_settings(@, kwargs),
                        !.cache = EmptyCache, !.call = "update_settings",
                        !.provider = None, !.raised = "none", !.adapter = None]
    /\ UNCHANGED <<op, args, done>>

ClearAdapterCache ==
    /\ op = "get_adapter"
    /\ result' = [result EXCEPT
                     !.cache = EmptyCache, !.call = "clear_adapter_cache",
                     !.provider = None, !.raised = "none", !.adapter = None]
    /\ UNCHANGED <<op, args, done>>

NextRegistry == GetAdapter \/ UpdateSettings \/ ClearAdapterCache

SpecRegistry == InitRegistry /\ [][NextRegistry]_vars

\* C24: after any calls of get_adapter, update_settings and
\* clear_adapter_cache, a get_adapter call made while allow_external_calls is
\* false returns no adapter that is not local, and raises
\* PrivacyViolationError for a registered provider that is not local; a
\* get_adapter call whose provider name (the argument, or the configured
\* provider when none is given) is not registered raises
\* ProviderUnavailableError.  With any cache reached, an external adapter
\* in it included, get_adapter raises PrivacyViolationError for an external
\* provider once allow_external_calls is false.
C24_PrivacyEnforced ==
    /\ op = "get_adapter" =>
          \A p \in {"openrouter", "azure"} :
              LET got == get_adapter([result.settings EXCEPT
                                         !.allow_external_calls = FALSE],
                                     result.cache, Some(p))
              IN  got.raised = "PrivacyViolationError" /\ got.adapter = None
    /\ (op = "get_adapter" /\ result.call = "get_adapter") =>
        LET name == IF result.provider \in {None, Some("")}
                    THEN result.settings.llm_provider
                    ELSE Val(result.provider)
            registered == {"openrouter", "ollama", "vllm", "tgi", "azure"}
            external == {"openrouter", "azure"}
        IN  /\ ~result.settings.allow_external_calls =>
                  /\ result.adapter # None => Val(result.adapter).is_local
                  /\ result.adapter # None => Val(result.adapter).name \notin external
                  /\ name \in external =>
                        (result.raised = "PrivacyViolationError" /\ result.adapter = None)
            /\ name \notin registered =>
                  (result.raised = "ProviderUnavailableError" /\ result.adapter = None)

\* get_adapter("openrouter") raises PrivacyViolationError after the adapter
\* was returned once and external calls were then switched off.
C24_Witness ==
    /\ op = "get_adapter" /\ result.call = "get_adapter"
    /\ result.provider = Some("openrouter")
    /\ "openrouter" \in result.served
    /\ ~result.settings.allow_external_calls
    /\ result.raised = "PrivacyViolationError"

\* ---------------------------------------------------------------------
\* api/routes.py: generate_tests and generate_tests_stream.
\* ---------------------------------------------------------------------

\* The HTTP status of the exception handlers of generate_tests.
http_status(raised) ==
    IF raised = "PrivacyViolationError" THEN 403
    ELSE IF raised = "CircuitOpenError" THEN 503
    ELSE IF raised \in {"ValueError", "ValidationError"} THEN 400
    ELSE 500

\* generate_tests, were validate_coverage given the raw plan built before
\* the names of existing tests are left out.
generate_tests_Unfiltered(context, existing_test_names, generators_raise, reversed) ==
    LET test_plan == plan_tests(context, <<>>)
        planned_test_names == ScenarioNames(test_plan.scenarios)
    IN  IF test_plan.raised # "none"
        THEN [raised |-> test_plan.raised, status |-> http_status(test_plan.raised),
              test_plan |-> None, validation |-> None]
        ELSE [raised |-> "none", status |-> 200,
              test_plan |-> Some(test_plan.scenarios),
              validation |-> Some(validate_coverage(planned_test_names,
                                                    existing_test_names,
                                                    planned_test_names))]

\* generate_tests from the context that parse_requirements_text returned:
\* generators_raise says whether a format generator raises, reversed whether
\* the interpreter lists a set of names in the reverse of the plan's order.
generate_tests(context, existing_test_names, generators_raise, reversed) ==
    LET test_plan == plan_tests(context, existing_test_names)
        planned_test_names == ScenarioNames(test_plan.scenarios)
        set_order == IF reversed
                     THEN [i \in DOMAIN planned_test_names |->
                              planned_test_names[Len(planned_test_names) + 1 - i]]
                     ELSE planned_test_names
    IN  IF test_plan.raised # "none"
        THEN [raised |-> test_plan.raised, status |-> http_status(test_plan.raised),
              test_plan |-> None, validation |-> None]
        ELSE IF generators_raise
        THEN [raised |-> "Exception", status |-> http_status("Exception"),
              test_plan |-> None, validation |-> None]
        ELSE [raised |-> "none", status |-> 200,
              test_plan |-> Some(test_plan.scenarios),
              validation |-> Some(validate_coverage(planned_test_names,
                                                    existing_test_names, set_order))]

InitPipeline ==
    /\ op = "generate_tests"
    /\ args \in [context : PlannerContexts, existing_test_names : ExistingInputs]
    /\ result = Pending
    /\ done = FALSE

GenerateTests ==
    /\ op = "generate_tests" /\ ~done
    /\ \E generators_raise \in BOOLEAN, reversed \in BOOLEAN :
          result' = generate_tests(args.context, args.existing_test_names,
                                   generators_raise, reversed)
    /\ done' = TRUE
    /\ UNCHANGED <<op, args>>

NextPipeline == GenerateTests

SpecPipeline == InitPipeline /\ [][NextPipeline]_vars

\* C29: the report that generate_tests makes of the plan's names and the
\* request's existing names has already_covered empty, duplicates empty and
\* new_tests holding exactly the names of the plan.
C29_PipelineReport ==
    (op = "generate_tests" /\ done /\ result.raised = "none") =>
        LET validation == Val(result.validation)
            names == ScenarioNames(Val(result.test_plan))
        IN  /\ validation.already_covered = <<>>
            /\ validation.duplicates = <<>>
            /\ ToSet(validation.new_tests) = ToSet(names)
            /\ Len(validation.new_tests) = Cardinality(ToSet(names))

\* A report for a plan from which the existing name a_positive was left out.
C29_Witness ==
    /\ op = "generate_tests" /\ done /\ result.raised = "none"
    /\ args.existing_test_names = <<"a_positive">>
    /\ Len(Val(result.test_plan)) >= 2
    /\ Len(Val(result.validation).new_tests) = Len(Val(result.test_plan))

\* --- generate_tests_stream ----------------------------------------------
\* args is the request (whether its text is structured, its output
\* formats); result holds the events yielded so far, the position of the
\* generator, the exception a pipeline step raised, and whether the
\* generator has finished.

SseEvent(event_type, tag) == [event |-> event_type, tag |-> tag]

\* error_event, were the handler to yield nothing.
error_event_Silent(raised) == SseEvent("stage", "error")

\* The error event of the handler that catches the exception.
error_event(raised) ==
    SseEvent("error",
             IF raised = "PrivacyViolationError" THEN "privacy_violation"
             ELSE IF raised = "CircuitOpenError" THEN "circuit_open"
             ELSE IF raised = "ValueError" THEN "invalid_input"
             ELSE "generation_failed")

OutputFormatInputs ==
    {<<>>, <<"pytest">>, <<"postman">>, <<"pytest", "junit">>, <<"bogus">>}

InitStream ==
    /\ op = "generate_tests_stream"
    /\ args \in [structured : BOOLEAN, output_formats : OutputFormatInputs]
    /\ result = [events |-> <<>>, pc |-> "start", raised |-> None, finished |-> FALSE]
    /\ done = FALSE

\* The generator up to its next yield after a step that went well.
Yielded(event, pc) ==
    /\ result' = [result EXCEPT !.events = Append(@, event), !.pc = pc,
                                !.finished = (pc = "end")]
    /\ done' = (pc = "end")
    /\ UNCHANGED <<op, args>>

\* The generator from a step that raises: the handler's yield, and the end.
Raised(raised) ==
    /\ result' = [result EXCEPT !.events = Append(@, error_event(raised)),
                                !.pc = "end", !.raised = Some(raised),
                                !.finished = TRUE]
    /\ done' = TRUE
    /\ UNCHANGED <<op, args>>

StageParsing ==
    /\ op = "generate_tests_stream" /\ result.pc = "start"
    /\ Yielded(SseEvent("stage", "parsing"), "parse")

\* parse_requirements_text; the adapter is used for prose only.
ContextReady ==
    /\ op = "generate_tests_stream" /\ result.pc = "parse"
    /\ \/ Yielded(SseEvent("context_ready", "parsing"), "planning")
       \/ \E raised \in {"ValueError", "Exception"} : Raised(raised)
       \/ /\ ~args.structured
          /\ \E raised \in {"PrivacyViolationError", "CircuitOpenError"} : Raised(raised)

StagePlanning ==
    /\ op = "generate_tests_stream" /\ result.pc = "planning"
    /\ Yielded(SseEvent("stage", "planning"), "plan")

\* plan_tests
PlanReady ==
    /\ op = "generate_tests_stream" /\ result.pc = "plan"
    /\ \/ Yielded(SseEvent("plan_ready", "planning"), "generating")
       \/ \E raised \in {"ValueError", "Exception"} : Raised(raised)

StageGenerating ==
    /\ op = "generate_tests_stream" /\ result.pc = "generating"
    /\ Yielded(SseEvent("stage", "generating"), "generate")

\* The generators of the formats asked for (pytest when none is).
CodeReady ==
    /\ op = "generate_tests_stream" /\ result.pc = "generate"
    /\ LET formats == IF args.output_formats # <<>> THEN args.output_formats
                      ELSE <<"pytest">>
       IN  \/ Yielded(SseEvent("code_ready", "generating"), "validating")
           \/ /\ \E i \in DOMAIN formats :
                    formats[i] \in {"pytest", "postman", "junit", "gherkin", "openapi"}
              /\ \E raised \in {"ValueError", "Exception"} : Raised(raised)

StageValidating ==
    /\ op = "generate_tests_stream" /\ result.pc = "validating"
    /\ Yielded(SseEvent("stage", "validating"), "validate")

\* validate_coverage and the serialization of the whole result.
Complete ==
    /\ op = "generate_tests_stream" /\ result.pc = "validate"
    /\ \/ Yielded(SseEvent("complete", "complete"), "end")
       \/ \E raised \in {"ValueError", "Exception"} : Raised(raised)

NextStream ==
    \/ StageParsing \/ ContextReady \/ StagePlanning \/ PlanReady
    \/ StageGenerating \/ CodeReady \/ StageValidating \/ Complete

SpecStream == InitStream /\ [][NextStream]_vars

\* The response is read to its end.
SpecStreamLive == SpecStream /\ WF_vars(NextStream)

FixedEventSequence ==
    <<SseEvent("stage", "parsing"), SseEvent("context_ready", "parsing"),
      SseEvent("stage", "planning"), SseEvent("plan_ready", "planning"),
      SseEvent("stage", "generating"), SseEvent("code_ready", "generating"),
      SseEvent("stage", "validating"), SseEvent("complete", "complete")>>

\* What C26 says of every state of a stream.
StreamShape ==
    op = "generate_tests_stream" =>
        LET events == result.events
            errors == {i \in DOMAIN events : events[i].event = "error"}
            completes == {i \in DOMAIN events : events[i].event = "complete"}
            others == SelectSeq(events, LAMBDA ev : ev.event # "error")
        IN  /\ Len(others) <= Len(FixedEventSequence)
            /\ others = SubSeq(FixedEventSequence, 1, Len(others))
            /\ \A i \in errors : i = Len(events)
            /\ Cardinality(errors) <= 1
            /\ errors = {} \/ completes = {}
            /\ result.raised # None => (Cardinality(errors) = 1 /\ result.finished)
            /\ result.finished =>
                  (events # <<>> /\ events[Len(events)].event \in {"complete", "error"})
            /\ (events # <<>> /\ events[Len(events)].event \in {"complete", "error"})
                  => result.finished

====
